---- MODULE Spec2Model ----
(***************************************************************************)
(* Discovery & Telemetry Engine of SCR.Openwisp.                           *)
(*                                                                         *)
(* Part 1 (specification Spec): the scan-job registry of utils/scanner.js  *)
(* -- createScanJob, getScanJob, updateScanJob, startScanJob and the       *)
(* eviction sweep installed with setInterval.                              *)
(*                                                                         *)
(* Time is counted in units of TimeUnit milliseconds (five minutes, the    *)
(* period of the eviction sweep).  A timer is a lower bound on when its    *)
(* callback runs and the registry keeps no deadline of its own, so an      *)
(* await of the scan body is given no upper bound on its duration.         *)
(*                                                                         *)
(* Part 2 (specification CollectSpec): the store (Routers, Metrics), the   *)
(* Scheduler tick of utils/cron.js, the collect-metrics request of the     *)
(* metric controller and the deletion of a router, interleaved at their    *)
(* awaits.                                                                 *)
(*                                                                         *)
(* Part 3 (specification BatterySpec): one call of the Collector of        *)
(* utils/ssh.js against every behaviour of the device, and the Metric row  *)
(* made from the record it returns.                                        *)
(***************************************************************************)
EXTENDS Integers, FiniteSets, Sequences, TLC

\* ------------------------------------------------------------------ bounds
MaxJobs == 1        \* scan jobs created in one behaviour
MaxTime == 8        \* clock horizon, in time units
MaxRouters == 2     \* routers created in one behaviour
MaxTicks == 1       \* Scheduler ticks dispatched in one behaviour
MaxManual == 1      \* collect-metrics requests accepted in one behaviour
MaxDay == 9         \* clock horizon of the retention sweep, in days
MaxSamples == 3     \* Metric rows created in one behaviour of the sweep
MaxRequests == 3    \* requests to /routers and /scanner/add in one behaviour
MaxDevices == 2     \* devices in the payload of one add-multiple request
MaxReconfig == 3    \* calls of updateCollectionInterval that install a job

\* ------------------------------------------------------- program constants
TimeUnit == 5 * 60 * 1000                       \* ms per model time unit
SweepEvery == (5 * 60 * 1000) \div TimeUnit     \* setInterval period
EvictAfter == (30 * 60 * 1000) \div TimeUnit    \* cutoff of the sweep
ScanDeadline == (10 * 60 * 1000) \div TimeUnit  \* the deadline of the spec

JobIds == 1..MaxJobs
Null == "null"

\* null where an object is expected (a found job or document, a metrics record)
NullObj == [null |-> TRUE]

\* !x for a value that is an object or null
Falsy(x) == x = NullObj

\* subnet argument of createScanJob: a string ("a.b.c."), or a value that is
\* not a string, on which subnet.endsWith raises a TypeError
Subnets == {"10.0.0.", "notAString"}
TypeErrorMsg == "subnet.endsWith is not a function"

\* last octets the scan tiers can report (36 is the hard-wired target)
TargetOctet == 36
NearbyFound == {35}
CommonFound == {1}

VARIABLES
  scanJobs,    \* the Map scanJobs: job id -> job record
  created,     \* number of job ids minted so far (ids are never reused)
  scanPc,      \* per job id: where the startScanJob body of that job stands
  scanLocals,  \* per job id: the locals of the running body (subnet, IPs)
  bodyRuns,    \* per job id: how many times the scan body was entered
  lastStart,   \* the job id the latest step called startScanJob with, else 0
  now,         \* Date.now(), in time units
  poll,        \* the answer of the latest step, if it was a status request
  dropped      \* the job id whose updates found no job in the latest step, else 0

jobVars ==
  <<scanJobs, created, scanPc, scanLocals, bodyRuns, lastStart, now, poll, dropped>>

\* Part 2 (specification CollectSpec): routers and metrics in the store, the
\* Scheduler tick, the collect-metrics request and the router deletion
\* (utils/cron.js reaches the store through a document API -- Router.find,
\* router.save(), new Metric(...).save() -- and the controllers through the
\* table API; both are given their meaning on the tables of the migration)
VARIABLES
  routers,     \* table Routers: router id -> row
  routerSeq,   \* number of router ids minted so far
  metrics,     \* table Metrics: a set of rows
  metricSeq,   \* number of metric ids minted so far
  tick,        \* the running collectAllMetrics: its position and its query result
  ticks,       \* number of Scheduler ticks dispatched so far
  tickCall,    \* per router id: the tick's collection of that router
  manCall,     \* per router id: the collect-metrics request for that router
  manCalls,    \* number of collect-metrics requests accepted so far
  delCall      \* per router id: the position of the deleteRouter request

colVars == <<routers, routerSeq, metrics, metricSeq, tick, ticks, tickCall,
             manCall, manCalls, delCall>>

\* Part 3 (specification BatterySpec): one call of the Collector against
\* every behaviour of the device, and the Metric row made from its record
VARIABLES
  battery      \* the call: position, the device it met, its record, the row

\* Part 4 (specification RetentionSpec): the retention sweep of utils/cron.js
\* over the Routers and Metrics tables, seen through the columns it reads
VARIABLES
  keepDays,    \* Routers: router id -> metricsRetentionDays (0 when unset)
  samples,     \* Metrics: a set of rows [id, routerId, timestamp]
  sampleSeq,   \* number of sample ids minted so far
  today,       \* the clock, in days
  cleanup      \* the running cleanupOldMetrics: position, cutoff per router found

retVars == <<keepDays, samples, sampleSeq, today, cleanup>>

\* Part 5 (specification EnrolSpec): the Routers table as the requests that
\* enrol and edit routers see it (columns of the two migrations)
VARIABLES
  fleet,       \* Routers: router id -> [name, hostname, ipAddress, macAddress, status]
  fleetSeq,    \* number of router ids minted so far
  lastAdd,     \* how the latest POST /scanner/add was answered, else "none"
  batch,       \* the POST /scanner/add-multiple of the client and its resubmission
  requests     \* number of requests to /routers and /scanner/add so far

enrolVars == <<fleet, fleetSeq, lastAdd, batch, requests>>

\* Part 6 (specification SurveySpec): one scan of a subnet, with the hosts
\* of the subnet and what the scan functions make of them
VARIABLES
  lan,         \* the hosts of the subnet: last octet -> [ports, ssh]; <<>> before
  survey,      \* the body of startScanJob on that subnet: position, IPs, results
  sweep        \* what a call of scanSubnet returned, else the null object

surveyVars == <<lan, survey, sweep>>

\* Part 7 (specification WheelSpec): the cron jobs of the scheduler
VARIABLES
  cronJobs,             \* the CronJob objects made for collection: id -> [cronTime, running]
  metricsCollectionJob, \* the id of the CronJob the variable refers to
  cleanupRunning,       \* metricsCleanupJob.running
  currentInterval,      \* the variable currentInterval
  reconf,               \* the latest call of updateCollectionInterval: [interval, returned]
  lastTick,             \* the id of the CronJob whose tick the latest step dispatched, else 0
  configStatus,         \* the HTTP status of the latest updateMetricsConfig, else 0
  wheelOp               \* the latest step: [op, arg], op "none" at first

wheelVars ==
  << cronJobs, metricsCollectionJob, cleanupRunning, currentInterval, reconf,
     lastTick, configStatus, wheelOp >>

\* Part 8 (specification GaugeSpec): one helper of the Collector parses one
\* output of its commands
VARIABLES
  gauge                 \* [helper, input, output], helper "none" at first

\* Part 9 (specification ShellSpec): one call of a function of the shell
\* client that opens a session: the Collector, the connection test, the
\* hostname fetcher or the MAC fetcher
VARIABLES
  session               \* [fn, pc, outs, open, disposed]

\* Part 10 (specification ProbeSpec): one call of a TCP probe and its socket
VARIABLES
  socket                \* [fn, port, pc, state, hasResolved, answer, path, timer]

\* Part 11 (specification FingerSpec): one call of scanForOpenWrtDevices, the
\* extended check of the target and the quick check of one other address
VARIABLES
  finger                \* [scan, ext, quick]

vars ==
  <<jobVars, colVars, battery, retVars, enrolVars, surveyVars,
    wheelVars, gauge, session, socket, finger>>

\* what an action of one part leaves unchanged
notJobVars == <<colVars, battery, retVars, enrolVars, surveyVars, wheelVars, gauge, session, socket, finger>>
notColVars == <<jobVars, battery, retVars, enrolVars, surveyVars, wheelVars, gauge, session, socket, finger>>
notBatVars == <<jobVars, colVars, retVars, enrolVars, surveyVars, wheelVars, gauge, session, socket, finger>>
notRetVars == <<jobVars, colVars, battery, enrolVars, surveyVars, wheelVars, gauge, session, socket, finger>>
notEnrolVars == <<jobVars, colVars, battery, retVars, surveyVars, wheelVars, gauge, session, socket, finger>>
notSurveyVars == <<jobVars, colVars, battery, retVars, enrolVars, wheelVars, gauge, session, socket, finger>>
notWheelVars == <<jobVars, colVars, battery, retVars, enrolVars, surveyVars, gauge, session, socket, finger>>
notGaugeVars == <<jobVars, colVars, battery, retVars, enrolVars, surveyVars, wheelVars, session, socket, finger>>
notShellVars ==
  <<jobVars, colVars, battery, retVars, enrolVars, surveyVars,
    wheelVars, gauge, socket, finger>>
notProbeVars ==
  <<jobVars, colVars, battery, retVars, enrolVars, surveyVars,
    wheelVars, gauge, session, finger>>
notFingerVars ==
  <<jobVars, colVars, battery, retVars, enrolVars, surveyVars,
    wheelVars, gauge, session, socket>>

\* ------------------------------------------------------------ the registry

\* the object stored by createScanJob
NewJob(subnet, t) ==
  [ subnet    |-> subnet,
    status    |-> "pending",
    updatedAt |-> t,
    progress  |-> 0,
    message   |-> Null,
    results   |-> [devices |-> {}, partialScan |-> FALSE],
    error     |-> Null ]

\* {...job, ...updates, updatedAt: new Date()}
Merge(job, updates, t) ==
  [f \in DOMAIN job |->
     IF f = "updatedAt" THEN t
     ELSE IF f \in DOMAIN updates THEN updates[f] ELSE job[f]]

\* variant: an update that stores the job when the id is not in the map
UpdateScanJobOrInsert(jobs, j, updates, t) ==
  IF j \in DOMAIN jobs
    THEN [jobs EXCEPT ![j] = Merge(jobs[j], updates, t)]
    ELSE (j :> Merge(NewJob(Null, t), updates, t)) @@ jobs

\* updateScanJob(jobId, updates) applied to the map `jobs' at time t
UpdateScanJob(jobs, j, updates, t) ==
  IF j \in DOMAIN jobs
    THEN [jobs EXCEPT ![j] = Merge(jobs[j], updates, t)]
    ELSE jobs

\* variant: a lookup that answers an unknown id with a job as created
GetScanJobOrBlank(j) ==
  IF j \in DOMAIN scanJobs THEN scanJobs[j] ELSE NewJob(Null, 0)

\* getScanJob(jobId): scanJobs.get(jobId) || null
GetScanJob(j) == IF j \in DOMAIN scanJobs THEN scanJobs[j] ELSE NullObj

NoLocals == [subnet |-> Null, ips |-> {}]

\* no status request answered in the latest step
NoPoll == [jobId |-> 0, code |-> 0, body |-> NullObj]

JobInit ==
  /\ scanJobs = <<>>
  /\ created = 0
  /\ scanPc = [j \in JobIds |-> "none"]
  /\ scanLocals = [j \in JobIds |-> NoLocals]
  /\ bodyRuns = [j \in JobIds |-> 0]
  /\ lastStart = 0
  /\ now = 0
  /\ poll = NoPoll
  /\ dropped = 0

\* createScanJob(subnet, username, password)
CreateScanJob(subnet) ==
  /\ created < MaxJobs
  /\ created' = created + 1
  /\ scanJobs' = (created + 1 :> NewJob(subnet, now)) @@ scanJobs
  /\ lastStart' = 0
  /\ UNCHANGED <<scanPc, scanLocals, bodyRuns, now>>
  /\ poll' = NoPoll
  /\ dropped' = 0
  /\ UNCHANGED notJobVars

\* the patch objects startScanJob hands to updateScanJob
RunningPatch == [status |-> "running", progress |-> 5]
ProgressPatch(p, msg) == [progress |-> p, message |-> msg]
CompletedPatch(msg, devices, partial) ==
  [ status |-> "completed", progress |-> 100, message |-> msg,
    results |-> [devices |-> devices, partialScan |-> partial] ]
\* variant: the catch that leaves the progress where the scan stopped
ErrorPatchKeepsProgress(msg) == [status |-> "error", error |-> msg]
ErrorPatch(msg) == [status |-> "error", progress |-> 100, error |-> msg]

\* variant: a guard that tests only that the job exists
StartGuardAnyStatus(j) == j \in DOMAIN scanJobs

\* variant: a guard that lets a running job be started again
StartGuardNotFinished(j) ==
  j \in DOMAIN scanJobs /\ scanJobs[j].status \in {"pending", "running"}
\* the guard at the head of startScanJob: !job || job.status !== 'pending'
StartGuard(j) == j \in DOMAIN scanJobs /\ scanJobs[j].status = "pending"

\* startScanJob(jobId), up to its first await (comprehensiveSubnetScan)
StartScanJob(j) ==
  /\ lastStart' = j
  /\ IF StartGuard(j)
       THEN /\ scanJobs' =
                 UpdateScanJob(
                   UpdateScanJob(scanJobs, j, RunningPatch, now),
                   j, ProgressPatch(10, "Scanning reported device locations"), now)
            /\ scanPc' = [scanPc EXCEPT ![j] = "comprehensive"]
            /\ bodyRuns' = [bodyRuns EXCEPT ![j] = @ + 1]
            /\ scanLocals' = [scanLocals EXCEPT ![j] =
                                [subnet |-> scanJobs[j].subnet, ips |-> {}]]
       ELSE UNCHANGED <<scanJobs, scanPc, bodyRuns, scanLocals>>
  /\ UNCHANGED <<created, now>>
  /\ poll' = NoPoll
  /\ dropped' = 0
  /\ UNCHANGED notJobVars

\* what comprehensiveSubnetScan can return: the target octet is always in
\* the list (found, or force-added), nearby hosts only when a probe answered
ComprehensiveResults == {{TargetOctet} \cup s : s \in SUBSET NearbyFound}

\* what quickRouterScan can return: any subset of the octets it probes
QuickResults == SUBSET ({TargetOctet} \cup CommonFound)

\* whether comprehensiveSubnetScan(subnet) raises: subnet.endsWith on a
\* value that is not a string
ComprehensiveThrows(subnet) == subnet = "notAString"

\* the await of comprehensiveSubnetScan returns, or raises into the catch
ComprehensiveReturns(j) ==
  /\ scanPc[j] = "comprehensive"
  /\ IF ComprehensiveThrows(scanLocals[j].subnet)
       THEN /\ scanJobs' = UpdateScanJob(scanJobs, j, ErrorPatch(TypeErrorMsg), now)
            /\ scanPc' = [scanPc EXCEPT ![j] = "done"]
            /\ UNCHANGED scanLocals
       ELSE \E specificIPs \in ComprehensiveResults :
            /\ scanJobs' =
                 UpdateScanJob(
                   UpdateScanJob(scanJobs, j,
                     ProgressPatch(20, <<"Found devices in targeted scan",
                                         Cardinality(specificIPs)>>), now),
                   j, ProgressPatch(30, "Checking common router IPs"), now)
            /\ scanPc' = [scanPc EXCEPT ![j] = "quick"]
            /\ scanLocals' = [scanLocals EXCEPT ![j].ips = specificIPs]
  /\ lastStart' = 0
  /\ UNCHANGED <<created, bodyRuns, now>>
  /\ poll' = NoPoll
  /\ dropped' = IF j \in DOMAIN scanJobs THEN 0 ELSE j
  /\ UNCHANGED notJobVars

\* the await of quickRouterScan returns; the results are combined
QuickReturns(j) ==
  /\ scanPc[j] = "quick"
  /\ \E quickScanIPs \in QuickResults :
       LET allActiveIPs == scanLocals[j].ips \cup quickScanIPs
           n == Cardinality(allActiveIPs)
           at40 == UpdateScanJob(scanJobs, j,
                     ProgressPatch(40, <<"Found potential devices total", n>>), now)
       IN IF n = 0
            THEN /\ scanJobs' = UpdateScanJob(at40, j,
                       CompletedPatch("No potential routers found", {}, FALSE), now)
                 /\ scanPc' = [scanPc EXCEPT ![j] = "done"]
                 /\ scanLocals' = [scanLocals EXCEPT ![j].ips = allActiveIPs]
            ELSE /\ scanJobs' = UpdateScanJob(at40, j,
                       ProgressPatch(50, <<"Checking potential devices for OpenWrt", n>>), now)
                 /\ scanPc' = [scanPc EXCEPT ![j] = "openwrt"]
                 /\ scanLocals' = [scanLocals EXCEPT ![j].ips = allActiveIPs]
  /\ lastStart' = 0
  /\ UNCHANGED <<created, bodyRuns, now>>
  /\ poll' = NoPoll
  /\ dropped' = IF j \in DOMAIN scanJobs THEN 0 ELSE j
  /\ UNCHANGED notJobVars

\* variant: checks that are not raced against a timer: the stage never
\* returns when the shell of the target accepts and then hangs
OpenWrtResultsNoDeadline(ips) ==
  IF TargetOctet \in ips THEN {}
  ELSE {[devices |-> s, partialScan |-> FALSE] : s \in SUBSET ips}

\* what scanForOpenWrtDevices can return for the IPs it is given: the target
\* octet always yields a device (detected, or the placeholder), every other
\* IP yields one only when its quick check answers within its deadline
OpenWrtResults(ips) ==
  { [devices |-> (ips \cap {TargetOctet}) \cup s, partialScan |-> FALSE] :
      s \in SUBSET (ips \ {TargetOctet}) }

\* the await of scanForOpenWrtDevices returns: the job is completed
OpenWrtReturns(j) ==
  /\ scanPc[j] = "openwrt"
  /\ \E r \in OpenWrtResults(scanLocals[j].ips) :
       scanJobs' = UpdateScanJob(scanJobs, j,
                     CompletedPatch(<<"Completed scan, found devices",
                                      Cardinality(r.devices)>>,
                                    r.devices, r.partialScan), now)
  /\ scanPc' = [scanPc EXCEPT ![j] = "done"]
  /\ lastStart' = 0
  /\ UNCHANGED <<created, scanLocals, bodyRuns, now>>
  /\ poll' = NoPoll
  /\ dropped' = IF j \in DOMAIN scanJobs THEN 0 ELSE j
  /\ UNCHANGED notJobVars

\* variant: a sweep that also deletes the job updated exactly at the cutoff
EvictedAtCutoff(jobs, t) == {j \in DOMAIN jobs : jobs[j].updatedAt <= t - EvictAfter}
\* the callback of setInterval: delete every job with updatedAt < cutoff
Evicted(jobs, t) == {j \in DOMAIN jobs : jobs[j].updatedAt < t - EvictAfter}

\* variant: a timer that also ends the jobs still running ScanDeadline after
\* their last update, with the error "timed out"
EvictionSweepWithDeadline ==
  /\ now + SweepEvery <= MaxTime
  /\ now' = now + SweepEvery
  /\ scanJobs' =
       [j \in DOMAIN scanJobs \ Evicted(scanJobs, now') |->
          IF scanJobs[j].status = "running" /\ now' - scanJobs[j].updatedAt >= ScanDeadline
            THEN Merge(scanJobs[j], ErrorPatch("timed out"), now')
            ELSE scanJobs[j]]
  /\ lastStart' = 0
  /\ UNCHANGED <<created, scanPc, scanLocals, bodyRuns>>
  /\ poll' = NoPoll
  /\ dropped' = 0
  /\ UNCHANGED notJobVars
\* the interval timer fires, SweepEvery after its previous firing, and the
\* callback runs at the new time (the clock advances only here: a Date.now()
\* read between two firings is rounded down to the earlier one)
EvictionSweep ==
  /\ now + SweepEvery <= MaxTime
  /\ now' = now + SweepEvery
  /\ scanJobs' = [j \in DOMAIN scanJobs \ Evicted(scanJobs, now') |-> scanJobs[j]]
  /\ lastStart' = 0
  /\ UNCHANGED <<created, scanPc, scanLocals, bodyRuns>>
  /\ poll' = NoPoll
  /\ dropped' = 0
  /\ UNCHANGED notJobVars

\* checkScanStatus for GET /scanner/scan/:jobId: 404 when getScanJob finds
\* no job, else 200 with the fields of the job (the message and the marking
\* of devices that are already enrolled are left out)
CheckScanStatus(jobId) ==
  /\ poll' =
       LET job == GetScanJob(jobId)
       IN IF Falsy(job)
            THEN [jobId |-> jobId, code |-> 404, body |-> NullObj]
            ELSE [ jobId |-> jobId, code |-> 200,
                   body |-> [ status |-> job.status, progress |-> job.progress,
                              subnet |-> job.subnet, devices |-> job.results.devices,
                              devicesFound |-> Cardinality(job.results.devices),
                              partialScan |-> job.results.partialScan,
                              error |-> job.error ] ]
  /\ lastStart' = 0
  /\ dropped' = 0
  /\ UNCHANGED <<scanJobs, created, scanPc, scanLocals, bodyRuns, now>>
  /\ UNCHANGED notJobVars

\* the scan bodies that stand at an await
Awaiting == {j \in JobIds : scanPc[j] \in {"comprehensive", "quick", "openwrt"}}

\* the interval timer fires while every await of a scan body began after
\* its previous firing: each await of startScanJob ends within the time
\* limits of its probes and checks, far less than the period of the timer
TimedSweep ==
  /\ \A j \in Awaiting \cap DOMAIN scanJobs : scanJobs[j].updatedAt = now
  /\ EvictionSweep

\* ------------------------------------------------------------ the Collector

Commands == {"uptime", "memory", "cpu", "disk", "network", "wireless"}

\* how one command of the battery can end on the device: "ok" (exit code 0
\* and parsable output), "bad" (non-zero exit code, stderr or no output, on
\* the command and on its fallbacks), "throws" (execCommand rejects)
CmdOutcomes == {"ok", "bad", "throws"}

ZeroUsage == [total |-> 0, free |-> 0, used |-> 0, percentage |-> 0]

\* sample readings of a live device
SampleUptime == "up 1 day"
SampleMemory == [total |-> 64000, free |-> 16000, used |-> 48000, percentage |-> 75]
SampleCpu == 1
SampleDisk == [total |-> 103075021, free |-> 51589939, used |-> 51485082,
               percentage |-> 50, totalRaw |-> "98.3M", freeRaw |-> "49.2M",
               usedRaw |-> "49.1M"]
SampleNetwork == <<"br-lan">>
SampleWireless == 3

\* the helpers of the battery: each catches its own failure
CollectUptime(o) == IF o = "ok" THEN SampleUptime ELSE IF o = "bad" THEN "" ELSE Null
CollectMemoryInfo(o) == IF o = "ok" THEN SampleMemory ELSE ZeroUsage
CollectCpuLoad(o) == IF o = "ok" THEN SampleCpu ELSE 0
CollectDiskUsage(o) == IF o = "ok" THEN SampleDisk ELSE ZeroUsage
CollectNetworkInfo(o) == IF o = "ok" THEN SampleNetwork ELSE <<>>
CollectWirelessInfo(o) == IF o = "ok" THEN SampleWireless ELSE 0

\* the record collectMetrics returns on its three early exits
Sentinel(msg) ==
  [ error |-> msg, uptime |-> Null, memoryUsage |-> ZeroUsage, cpuLoad |-> 0,
    diskUsage |-> ZeroUsage, networkInterfaces |-> <<>>, wirelessClients |-> 0 ]

\* createSSHClient(router): the client, or null when ssh.connect rejects
CreateSSHClient(sshOk) == IF sshOk THEN "ssh" ELSE Null

\* variant: the Collector that returns null when the probe or the shell fails
CollectMetricsOrNull(portOpen, sshOk, out) ==
  IF ~portOpen \/ CreateSSHClient(sshOk) = Null THEN [null |-> TRUE]
  ELSE [ error |-> Null,
         uptime |-> CollectUptime(out["uptime"]),
         memoryUsage |-> CollectMemoryInfo(out["memory"]),
         cpuLoad |-> CollectCpuLoad(out["cpu"]),
         diskUsage |-> CollectDiskUsage(out["disk"]),
         networkInterfaces |-> CollectNetworkInfo(out["network"]),
         wirelessClients |-> CollectWirelessInfo(out["wireless"]) ]

\* variant: the Collector without a catch around each command
CollectMetricsAllOrNothing(portOpen, sshOk, out) ==
  IF ~portOpen THEN Sentinel("Device not reachable")
  ELSE IF CreateSSHClient(sshOk) = Null THEN Sentinel("SSH connection failed")
  ELSE IF \E c \in Commands : out[c] = "throws" THEN Sentinel("command failed")
  ELSE [ error |-> Null,
         uptime |-> CollectUptime(out["uptime"]),
         memoryUsage |-> CollectMemoryInfo(out["memory"]),
         cpuLoad |-> CollectCpuLoad(out["cpu"]),
         diskUsage |-> CollectDiskUsage(out["disk"]),
         networkInterfaces |-> CollectNetworkInfo(out["network"]),
         wirelessClients |-> CollectWirelessInfo(out["wireless"]) ]

\* sshClient.collectMetrics(router) for one state of the device: portOpen
\* (the TCP probe of port 22), sshOk (ssh.connect), out (command -> outcome).
\* The record of a full battery has no error field (Null stands for undefined).
CollectMetrics(portOpen, sshOk, out) ==
  IF ~portOpen THEN Sentinel("Device not reachable")
  ELSE IF CreateSSHClient(sshOk) = Null THEN Sentinel("SSH connection failed")
  ELSE [ error |-> Null,
         uptime |-> CollectUptime(out["uptime"]),
         memoryUsage |-> CollectMemoryInfo(out["memory"]),
         cpuLoad |-> CollectCpuLoad(out["cpu"]),
         diskUsage |-> CollectDiskUsage(out["disk"]),
         networkInterfaces |-> CollectNetworkInfo(out["network"]),
         wirelessClients |-> CollectWirelessInfo(out["wireless"]) ]

\* ------------------------------------------------- the store and its users

RouterIds == 1..MaxRouters

\* the device behaviours a collection can meet: command -> outcome
Batteries == [Commands -> CmdOutcomes]

\* the behaviour the store-level model gives a device whose shell opened:
\* every command of the battery succeeds (BatterySpec covers the others)
Devices == {out \in Batteries : \A c \in Commands : out[c] = "ok"}

\* a row of Routers as Router.create stores it (model defaults)
NewRouter(monitoring) ==
  [monitoringEnabled |-> monitoring, status |-> "unknown", lastSeen |-> Null]

\* variant: the query without its filter
FindEveryRouter(rs) == rs

\* Router.find({ monitoringEnabled: true }): the documents found
FindMonitored(rs) ==
  [r \in {x \in DOMAIN rs : rs[x].monitoringEnabled} |-> rs[r]]

\* the fields a handler changes on its router document before router.save()
OfflinePatch == [status |-> "offline"]
OnlinePatch == [status |-> "online", lastSeen |-> "date"]

\* router.save(): the changed fields reach the row, if the row still exists
SaveRouter(rs, r, patch) ==
  IF r \in DOMAIN rs
    THEN [rs EXCEPT ![r] = [f \in DOMAIN @ |->
                              IF f \in DOMAIN patch THEN patch[f] ELSE @[f]]]
    ELSE rs

\* the row a stored Metric has: the telemetry fields of the Collector's record
MetricRow(id, r, m) ==
  [ id |-> id, routerId |-> r, uptime |-> m.uptime, memoryUsage |-> m.memoryUsage,
    cpuLoad |-> m.cpuLoad, diskUsage |-> m.diskUsage,
    networkInterfaces |-> m.networkInterfaces, wirelessClients |-> m.wirelessClients ]

\* the foreign key Metrics.routerId -> Routers.id: an insert for a router
\* that has no row is rejected
CanInsert(rs, r) == r \in DOMAIN rs

\* variant: a foreign key without ON DELETE CASCADE
CascadeDeleteNothing(ms, r) == ms

\* ON DELETE CASCADE of that key: deleting the row of r deletes its metrics
CascadeDelete(ms, r) == {m \in ms : m.routerId # r}

\* Metric.destroy({ where: { routerId } })
DestroyMetrics(ms, r) == {m \in ms : m.routerId # r}

\* a collection of one router: its position (pc), the monitoringEnabled of
\* the router document it holds (monitored), whether a TCP probe of the
\* attempt has returned (probed) and whether every such probe was open
\* (portOpen), how the opening of the shell went (shell), the record the
\* Collector returned (metrics), the status it wrote to the store (saved)
\* and whether its Metric row was stored (inserted)
NoCall ==
  [ pc |-> "idle", monitored |-> FALSE, probed |-> FALSE, portOpen |-> TRUE,
    shell |-> "untried", metrics |-> NullObj, saved |-> Null, inserted |-> FALSE ]

\* how the Collector's steps went on the device: the shell is tried only
\* behind an open probe
ShellOf(portOpen, sshOk) ==
  IF ~portOpen THEN "untried" ELSE IF sshOk THEN "open" ELSE "failed"

NewCall(doc, pc) == [NoCall EXCEPT !.pc = pc, !.monitored = doc.monitoringEnabled]

\* the patch a collection at a save position is about to write
PendingPatch(c) == IF c.pc = "saveOffline" THEN OfflinePatch ELSE OnlinePatch

Settled(c) == c.pc \in {"idle", "done"}

ColInit ==
  /\ routers = <<>>
  /\ routerSeq = 0
  /\ metrics = {}
  /\ metricSeq = 0
  /\ tick = [pc |-> "idle", found |-> <<>>]
  /\ ticks = 0
  /\ tickCall = [r \in RouterIds |-> NoCall]
  /\ manCall = [r \in RouterIds |-> NoCall]
  /\ manCalls = 0
  /\ delCall = [r \in RouterIds |-> "idle"]

\* no Collector call yet
NoBattery ==
  [ pc |-> "idle", port |-> 0, listening |-> {}, shellPort |-> 0,
    portOpen |-> FALSE, sshOk |-> FALSE, out |-> <<>>,
    result |-> NullObj, row |-> NullObj ]

\* no router, no sample, no sweep running
RetInit ==
  /\ keepDays = <<>>
  /\ samples = {}
  /\ sampleSeq = 0
  /\ today = 0
  /\ cleanup = [pc |-> "idle", cutoff |-> <<>>]

\* no add-multiple submitted yet
NoBatch ==
  [ round |-> 0, devices |-> <<>>, next |-> 1,
    added |-> {}, updated |-> {}, failed |-> {}, after |-> <<>> ]

EnrolInit ==
  /\ fleet = <<>>
  /\ fleetSeq = 0
  /\ lastAdd = "none"
  /\ batch = NoBatch
  /\ requests = 0

NoSurvey ==
  [ pc |-> "idle", specificIPs |-> {}, allActiveIPs |-> {}, probed |-> {},
    results |-> [devices |-> {}, partialScan |-> FALSE],
    ipList |-> <<>>, deviceList |-> <<>> ]

SurveyInit == lan = <<>> /\ survey = NoSurvey /\ sweep = NullObj

\* COLLECTION_INTERVALS, and the default
CollectionIntervals ==
  [ EVERY_MINUTE |-> "* * * * *", EVERY_5_MINUTES |-> "*/5 * * * *",
    EVERY_15_MINUTES |-> "*/15 * * * *", EVERY_30_MINUTES |-> "*/30 * * * *",
    HOURLY |-> "0 * * * *", DAILY |-> "0 0 * * *" ]
DefaultInterval == CollectionIntervals.EVERY_5_MINUTES

\* new CronJob(cronTime, collectAllMetrics, null, false): not started
NewCronJob(cronTime) == [cronTime |-> cronTime, running |-> FALSE]

NoReconf == [interval |-> Null, returned |-> FALSE]

\* the module is loaded: one collection job on the default interval, the
\* cleanup job, both not started
WheelInit ==
  /\ cronJobs = <<NewCronJob(DefaultInterval)>>
  /\ metricsCollectionJob = 1
  /\ cleanupRunning = FALSE
  /\ currentInterval = DefaultInterval
  /\ reconf = NoReconf
  /\ lastTick = 0
  /\ configStatus = 0
  /\ wheelOp = [op |-> "none", arg |-> Null]

\* no helper has run
NoGauge == [helper |-> "none"]

\* a promise that has not settled
Pending == [pending |-> TRUE]

\* a check that has not been called: the chain it is in and the commands of
\* the chain it has issued, what it waits for, its flag and its timer, what
\* the chains found, the value of its promise and the handler that settled
\* it, the calls of resolve and of conn.end(), the commands it has issued
NoCheck ==
  [ pc |-> "idle", ip |-> 0, chain |-> 0, index |-> 0, wait |-> "none",
    connectionFinished |-> FALSE, timer |-> FALSE, hostnameFound |-> FALSE,
    isOpenWrt |-> FALSE, macAddress |-> FALSE, value |-> Pending, by |-> Null,
    resolves |-> 0, ends |-> 0, log |-> <<>> ]

\* scanForOpenWrtDevices has not been called
NoFinger ==
  [ scan |-> [ pc |-> "idle", activeIPs |-> <<>>, ipsToCheck |-> <<>>, devices |-> <<>>,
               outer5 |-> FALSE, outer3 |-> FALSE, checked |-> <<>>, late |-> {} ],
    ext |-> NoCheck, quick |-> NoCheck ]

\* no probe has been called
NoProbe ==
  [ fn |-> Null, port |-> 0, pc |-> "idle", state |-> "none", hasResolved |-> FALSE,
    answer |-> Null, path |-> Null, timer |-> FALSE ]

\* no function of the shell client has been called
NoShell == [fn |-> Null, pc |-> "idle", outs |-> <<>>, open |-> FALSE, disposed |-> 0]

Init ==
  /\ JobInit /\ ColInit /\ battery = NoBattery /\ RetInit /\ EnrolInit
  /\ SurveyInit /\ WheelInit /\ gauge = NoGauge /\ session = NoShell
  /\ socket = NoProbe /\ finger = NoFinger

\* POST /routers
CreateRouter(monitoring) ==
  /\ routerSeq < MaxRouters
  /\ routerSeq' = routerSeq + 1
  /\ routers' = (routerSeq + 1 :> NewRouter(monitoring)) @@ routers
  /\ UNCHANGED <<metrics, metricSeq, tick, ticks, tickCall, manCall, manCalls, delCall>>
  /\ UNCHANGED notColVars

\* PUT /routers/:id with body { monitoringEnabled }
UpdateRouter(r, monitoring) ==
  /\ r \in DOMAIN routers
  /\ routers[r].monitoringEnabled # monitoring
  /\ routers' = [routers EXCEPT ![r].monitoringEnabled = monitoring]
  /\ UNCHANGED <<routerSeq, metrics, metricSeq, tick, ticks, tickCall, manCall,
                 manCalls, delCall>>
  /\ UNCHANGED notColVars

\* collectAllMetrics, the cron callback: the query for the monitored routers.
\* The model keeps one Scheduler call per router, so a tick begins when the
\* calls of the tick before it have settled.
TickQuery ==
  /\ tick.pc = "idle"
  /\ ticks < MaxTicks
  /\ \A r \in RouterIds : Settled(tickCall[r])
  /\ ticks' = ticks + 1
  /\ tick' = [pc |-> "queried", found |-> FindMonitored(routers)]
  /\ UNCHANGED <<routers, routerSeq, metrics, metricSeq, tickCall, manCall,
                 manCalls, delCall>>
  /\ UNCHANGED notColVars

\* ... the query has returned: one Collector call per router found
TickDispatch ==
  /\ tick.pc = "queried"
  /\ tickCall' = [r \in RouterIds |->
                    IF r \in DOMAIN tick.found
                      THEN NewCall(tick.found[r], "collect")
                      ELSE tickCall[r]]
  /\ tick' = [pc |-> "idle", found |-> <<>>]
  /\ UNCHANGED <<routers, routerSeq, metrics, metricSeq, ticks, manCall,
                 manCalls, delCall>>
  /\ UNCHANGED notColVars

\* ... sshClient.collectMetrics(router) has returned for router r
TickCollectReturns(r) ==
  /\ tickCall[r].pc = "collect"
  /\ \E portOpen \in BOOLEAN, sshOk \in BOOLEAN, out \in Devices :
       LET m == CollectMetrics(portOpen, sshOk, out)
           c == [tickCall[r] EXCEPT !.probed = TRUE, !.portOpen = portOpen,
                                    !.shell = ShellOf(portOpen, sshOk),
                                    !.metrics = m]
       IN tickCall' = [tickCall EXCEPT ![r] =
            IF Falsy(m)
              THEN [c EXCEPT !.pc = "saveOffline"]
              ELSE [c EXCEPT !.pc = "saveOnline"]]
  /\ UNCHANGED <<routers, routerSeq, metrics, metricSeq, tick, ticks, manCall,
                 manCalls, delCall>>
  /\ UNCHANGED notColVars

\* ... router.save()
TickSave(r) ==
  /\ tickCall[r].pc \in {"saveOffline", "saveOnline"}
  /\ routers' = SaveRouter(routers, r, PendingPatch(tickCall[r]))
  /\ tickCall' = [tickCall EXCEPT ![r].saved = PendingPatch(tickCall[r]).status,
                    ![r].pc = IF tickCall[r].pc = "saveOnline" THEN "insert" ELSE "done"]
  /\ UNCHANGED <<routerSeq, metrics, metricSeq, tick, ticks, manCall, manCalls, delCall>>
  /\ UNCHANGED notColVars

\* variant: a tick whose rejected insert ends the calls of the other routers
TickInsertAbortsTick(r) ==
  /\ tickCall[r].pc = "insert"
  /\ IF CanInsert(routers, r)
       THEN /\ metrics' = metrics \cup {MetricRow(metricSeq + 1, r, tickCall[r].metrics)}
            /\ metricSeq' = metricSeq + 1
            /\ tickCall' = [tickCall EXCEPT ![r].pc = "done", ![r].inserted = TRUE]
       ELSE /\ tickCall' = [q \in RouterIds |-> [tickCall[q] EXCEPT !.pc = "done"]]
            /\ UNCHANGED <<metrics, metricSeq>>
  /\ UNCHANGED <<routers, routerSeq, tick, ticks, manCall, manCalls, delCall>>
  /\ UNCHANGED notColVars

\* ... metric.save(); a rejected insert is caught and logged
TickInsert(r) ==
  /\ tickCall[r].pc = "insert"
  /\ IF CanInsert(routers, r)
       THEN /\ metrics' = metrics \cup {MetricRow(metricSeq + 1, r, tickCall[r].metrics)}
            /\ metricSeq' = metricSeq + 1
            /\ tickCall' = [tickCall EXCEPT ![r].pc = "done", ![r].inserted = TRUE]
       ELSE /\ tickCall' = [tickCall EXCEPT ![r].pc = "done"]
            /\ UNCHANGED <<metrics, metricSeq>>
  /\ UNCHANGED <<routers, routerSeq, tick, ticks, manCall, manCalls, delCall>>
  /\ UNCHANGED notColVars

\* POST /routers/:routerId/collect-metrics: Router.findByPk and the checks
ManualFind(r) ==
  /\ manCalls < MaxManual
  /\ r <= routerSeq
  /\ Settled(manCall[r])
  /\ manCalls' = manCalls + 1
  /\ manCall' = [manCall EXCEPT ![r] =
       IF r \notin DOMAIN routers
         THEN [NoCall EXCEPT !.pc = "done"]
       ELSE IF ~routers[r].monitoringEnabled
         THEN NewCall(routers[r], "done")
       ELSE NewCall(routers[r], "probe")]
  /\ UNCHANGED <<routers, routerSeq, metrics, metricSeq, tick, ticks, tickCall, delCall>>
  /\ UNCHANGED notColVars

\* ... sshClient.checkPortOpen(router.ipAddress, 22) has returned
ManualProbe(r) ==
  /\ manCall[r].pc = "probe"
  /\ \E portOpen \in BOOLEAN :
       manCall' = [manCall EXCEPT ![r] =
         IF ~portOpen
           THEN [@ EXCEPT !.pc = "saveOffline", !.probed = TRUE, !.portOpen = FALSE]
           ELSE [@ EXCEPT !.pc = "saveOnline", !.probed = TRUE]]
  /\ UNCHANGED <<routers, routerSeq, metrics, metricSeq, tick, ticks, tickCall,
                 manCalls, delCall>>
  /\ UNCHANGED notColVars

\* ... router.save(); after an offline save the request is answered
ManualSave(r) ==
  /\ manCall[r].pc \in {"saveOffline", "saveOnline"}
  /\ routers' = SaveRouter(routers, r, PendingPatch(manCall[r]))
  /\ manCall' = [manCall EXCEPT ![r] =
       IF manCall[r].pc = "saveOffline"
         THEN [@ EXCEPT !.pc = "done", !.saved = "offline"]
         ELSE [@ EXCEPT !.pc = "collect", !.saved = "online"]]
  /\ UNCHANGED <<routerSeq, metrics, metricSeq, tick, ticks, tickCall, manCalls, delCall>>
  /\ UNCHANGED notColVars

\* ... sshClient.collectMetrics(router) has returned
ManualCollectReturns(r) ==
  /\ manCall[r].pc = "collect"
  /\ \E portOpen \in BOOLEAN, sshOk \in BOOLEAN, out \in Devices :
       LET m == CollectMetrics(portOpen, sshOk, out)
           c == [manCall[r] EXCEPT !.portOpen = portOpen,
                                   !.shell = ShellOf(portOpen, sshOk),
                                   !.metrics = m]
       IN manCall' = [manCall EXCEPT ![r] =
            IF Falsy(m)
              THEN [c EXCEPT !.pc = "done"]
              ELSE [c EXCEPT !.pc = "insert"]]
  /\ UNCHANGED <<routers, routerSeq, metrics, metricSeq, tick, ticks, tickCall,
                 manCalls, delCall>>
  /\ UNCHANGED notColVars

\* ... Metric.create(...); a rejected insert raises into the handler's catch
ManualInsert(r) ==
  /\ manCall[r].pc = "insert"
  /\ IF CanInsert(routers, r)
       THEN /\ metrics' = metrics \cup {MetricRow(metricSeq + 1, r, manCall[r].metrics)}
            /\ metricSeq' = metricSeq + 1
            /\ manCall' = [manCall EXCEPT ![r].pc = "done", ![r].inserted = TRUE]
       ELSE /\ manCall' = [manCall EXCEPT ![r].pc = "done"]
            /\ UNCHANGED <<metrics, metricSeq>>
  /\ UNCHANGED <<routers, routerSeq, tick, ticks, tickCall, manCalls, delCall>>
  /\ UNCHANGED notColVars

\* DELETE /routers/:id: Router.findByPk found the router
DeleteFind(r) ==
  /\ delCall[r] = "idle"
  /\ r \in DOMAIN routers
  /\ delCall' = [delCall EXCEPT ![r] = "metrics"]
  /\ UNCHANGED <<routers, routerSeq, metrics, metricSeq, tick, ticks, tickCall,
                 manCall, manCalls>>
  /\ UNCHANGED notColVars

\* ... Metric.destroy({ where: { routerId } })
DeleteMetrics(r) ==
  /\ delCall[r] = "metrics"
  /\ metrics' = DestroyMetrics(metrics, r)
  /\ delCall' = [delCall EXCEPT ![r] = "router"]
  /\ UNCHANGED <<routers, routerSeq, metricSeq, tick, ticks, tickCall, manCall, manCalls>>
  /\ UNCHANGED notColVars

\* ... router.destroy(): the row goes, and with it the rows that refer to it
DeleteRouterRow(r) ==
  /\ delCall[r] = "router"
  /\ routers' = [x \in DOMAIN routers \ {r} |-> routers[x]]
  /\ metrics' = CascadeDelete(metrics, r)
  /\ delCall' = [delCall EXCEPT ![r] = "done"]
  /\ UNCHANGED <<routerSeq, metricSeq, tick, ticks, tickCall, manCall, manCalls>>
  /\ UNCHANGED notColVars

\* the port checkPortOpen is called with in collectMetrics, and the port
\* createSSHClient connects to: router.port || 22
ProbePort == 22
SshPortOf(port) == IF port # 0 THEN port ELSE 22

\* the SSH ports a router is configured with (0: none), and the ports a
\* device may listen on
RouterPorts == {0, 22, 2222}
DevicePorts == {22, 2222}

\* sshClient.collectMetrics(router) runs against one behaviour of the device:
\* the ports it listens on, whether its shell opens on a port it listens on,
\* and how its commands end. shellPort is the port ssh.connect was called
\* with, 0 when it was not called.
BatteryCollect ==
  /\ battery.pc = "idle"
  /\ \E port \in RouterPorts, listening \in SUBSET DevicePorts, shell \in BOOLEAN,
        out \in Batteries :
       LET portOpen == ProbePort \in listening
           sshOk == shell /\ SshPortOf(port) \in listening
       IN battery' = [ pc |-> "returned", port |-> port, listening |-> listening,
                       shellPort |-> IF portOpen THEN SshPortOf(port) ELSE 0,
                       portOpen |-> portOpen, sshOk |-> sshOk,
                       out |-> out, result |-> CollectMetrics(portOpen, sshOk, out),
                       row |-> NullObj ]
  /\ UNCHANGED notBatVars

\* the caller makes the Metric row from the record that was returned
BatteryStore ==
  /\ battery.pc = "returned"
  /\ ~Falsy(battery.result)
  /\ battery' = [battery EXCEPT !.pc = "stored",
                                !.row = MetricRow(1, 1, battery.result)]
  /\ UNCHANGED notBatVars

\* ------------------------------------------- the parsers of the Collector

\* a text is a sequence of characters; a number of the program is finite (a
\* fraction num/den, den > 0), NaN, or an infinity (num is its sign)
Finite(n, d) == [kind |-> "finite", num |-> n, den |-> d]
NaN == [kind |-> "NaN", num |-> 0, den |-> 1]
Infinity(sign) == [kind |-> "Infinity", num |-> sign, den |-> 1]

Digits == {"0", "1", "2", "3", "4", "5", "6", "7", "8", "9"}
DigitValue(c) ==
  CASE c = "0" -> 0 [] c = "1" -> 1 [] c = "2" -> 2 [] c = "3" -> 3 [] c = "4" -> 4
    [] c = "5" -> 5 [] c = "6" -> 6 [] c = "7" -> 7 [] c = "8" -> 8 [] c = "9" -> 9

RECURSIVE Power10(_)
Power10(k) == IF k = 0 THEN 1 ELSE 10 * Power10(k - 1)

\* the longest prefix of digits of a text, and the number it writes
RECURSIVE TakeDigits(_)
TakeDigits(text) ==
  IF text # <<>> /\ Head(text) \in Digits
    THEN <<Head(text)>> \o TakeDigits(Tail(text)) ELSE <<>>

RECURSIVE DigitsValue(_)
DigitsValue(ds) ==
  IF ds = <<>> THEN 0
  ELSE 10 * DigitsValue(SubSeq(ds, 1, Len(ds) - 1)) + DigitValue(ds[Len(ds)])

\* the characters of a text that satisfy, or do not satisfy, a test
RECURSIVE Keep(_, _)
Keep(text, chars) ==
  IF text = <<>> THEN <<>>
  ELSE (IF Head(text) \in chars THEN <<Head(text)>> ELSE <<>>) \o Keep(Tail(text), chars)

RECURSIVE Drop(_, _)
Drop(text, chars) ==
  IF text = <<>> THEN <<>>
  ELSE (IF Head(text) \in chars THEN <<>> ELSE <<Head(text)>>) \o Drop(Tail(text), chars)

\* str.replace('%', ''): the first '%' is taken out
RECURSIVE ReplaceFirst(_, _)
ReplaceFirst(text, c) ==
  IF text = <<>> THEN <<>>
  ELSE IF Head(text) = c THEN Tail(text)
  ELSE <<Head(text)>> \o ReplaceFirst(Tail(text), c)

ToUpperCase(text) ==
  [ i \in DOMAIN text |->
      CASE text[i] = "k" -> "K" [] text[i] = "m" -> "M" [] text[i] = "g" -> "G"
        [] text[i] = "t" -> "T" [] text[i] = "b" -> "B" [] OTHER -> text[i] ]

\* parseInt(text) and parseFloat(text) of a text without leading blanks: an
\* optional sign, digits, and for parseFloat a point and more digits; NaN
\* when no digit is read; undefined (no text) gives NaN
Undefined == <<"undefined">>

ParseInt(text) ==
  LET neg == text # <<>> /\ Head(text) = "-"
      ds == TakeDigits(IF neg THEN Tail(text) ELSE text)
  IN IF text = Undefined \/ ds = <<>> THEN NaN
     ELSE Finite((IF neg THEN -1 ELSE 1) * DigitsValue(ds), 1)

ParseFloat(text) ==
  LET neg == text # <<>> /\ Head(text) = "-"
      body == IF neg THEN Tail(text) ELSE text
      whole == TakeDigits(body)
      rest == SubSeq(body, Len(whole) + 1, Len(body))
      frac == IF rest # <<>> /\ Head(rest) = "." THEN TakeDigits(Tail(rest)) ELSE <<>>
  IN IF text = Undefined \/ (whole = <<>> /\ frac = <<>>) THEN NaN
     ELSE Finite((IF neg THEN -1 ELSE 1)
                   * (DigitsValue(whole) * Power10(Len(frac)) + DigitsValue(frac)),
                 Power10(Len(frac)))

\* Math.round(n / d) for d > 0: the nearest integer, a half goes up
MathRound(n, d) == (2 * n + d) \div (2 * d)

\* Math.round((used / total) * 100) || 0
Percentage(used, total) ==
  IF total.kind # "finite" \/ used.kind # "finite" THEN Finite(0, 1)
  ELSE IF total.num = 0
    THEN (IF used.num = 0 THEN Finite(0, 1)
          ELSE Infinity(IF used.num < 0 THEN -1 ELSE 1))
  ELSE Finite(MathRound(used.num * 100, total.num), 1)

\* a - b on numbers that are whole or NaN
Minus(a, b) ==
  IF a.kind = "finite" /\ b.kind = "finite" THEN Finite(a.num - b.num, 1) ELSE NaN

\* the zero record of collectMemoryInfo and of collectDiskUsage
ZeroGauge ==
  [total |-> Finite(0, 1), free |-> Finite(0, 1), used |-> Finite(0, 1),
   percentage |-> Finite(0, 1)]

\* memAvailable || (memFree + buffers + cached)
EffectiveFree(memFree, memAvailable, buffers, cached) ==
  IF memAvailable # 0 THEN memAvailable ELSE memFree + buffers + cached

\* collectMemoryInfo(ssh). res: what `cat /proc/meminfo' gave ([rejects,
\* stderr, stdout, and the five values its patterns read, 0 for a line that
\* is missing]); fallback: what `free | grep Mem' gave ([usable, parts])
CollectMemoryInfoOf(res, fallback) ==
  IF res.rejects \/ res.stderr THEN ZeroGauge
  ELSE IF res.stdout
    THEN LET effectiveFree ==
               EffectiveFree(res.memFree, res.memAvailable, res.buffers, res.cached)
             used == res.memTotal - effectiveFree
         IN [ total |-> Finite(res.memTotal, 1),
              free |-> Finite(effectiveFree, 1),
              used |-> Finite(used, 1),
              percentage |-> Percentage(Finite(used, 1), Finite(res.memTotal, 1)) ]
  ELSE IF fallback.usable /\ Len(fallback.parts) >= 3
    THEN LET total == ParseInt(fallback.parts[2])
             free == ParseInt(IF Len(fallback.parts) >= 4
                                THEN fallback.parts[4] ELSE Undefined)
         IN [ total |-> total, free |-> free, used |-> Minus(total, free),
              percentage |-> Percentage(Minus(total, free), total) ]
  ELSE ZeroGauge

\* convertToBytes(sizeStr) of collectDiskUsage
ConvertToBytes(sizeStr) ==
  IF sizeStr = <<>> \/ sizeStr = Undefined THEN 0
  ELSE LET numericPart == ParseFloat(Keep(sizeStr, Digits \cup {"."}))
           unit == ToUpperCase(Drop(sizeStr, Digits \cup {"."}))
           factor ==
             CASE unit \in {<<"K">>, <<"K", "B">>} -> 1024
               [] unit \in {<<"M">>, <<"M", "B">>} -> 1024 * 1024
               [] unit \in {<<"G">>, <<"G", "B">>} -> 1024 * 1024 * 1024
               [] unit \in {<<"T">>, <<"T", "B">>} -> 1024 * 1024 * 1024 * 1024
               [] OTHER -> 1
       IN IF numericPart.kind = "NaN" THEN 0
          ELSE MathRound(numericPart.num * factor, numericPart.den)

\* collectDiskUsage(ssh). res: what `df -h / | tail -n 1' gave ([rejects,
\* code, parts: the words of the trimmed line]); a line of fewer than five
\* words makes parts[4].replace throw
CollectDiskUsageOf(res) ==
  IF res.rejects \/ res.code # 0 \/ Len(res.parts) < 5 THEN ZeroGauge
  ELSE [ total |-> Finite(ConvertToBytes(res.parts[2]), 1),
         free |-> Finite(ConvertToBytes(res.parts[4]), 1),
         used |-> Finite(ConvertToBytes(res.parts[3]), 1),
         percentage |-> ParseInt(ReplaceFirst(res.parts[5], "%")),
         totalRaw |-> res.parts[2],
         freeRaw |-> res.parts[4],
         usedRaw |-> res.parts[3] ]

\* x / 100
Hundredth(x) == IF x.kind = "finite" THEN Finite(x.num, x.den * 100) ELSE x

\* collectCpuLoad(ssh). loadavg: what `cat /proc/loadavg' gave ([rejects,
\* stderr, first: the first word of the trimmed output, empty for no
\* output]); uptime, top, head: what the three fallbacks gave ([stderr,
\* found: the text their pattern or trim found, empty for none]). An
\* output of blanks only is not among the inputs.
CollectCpuLoadOf(loadavg, uptime, top, head) ==
  IF loadavg.rejects THEN Finite(0, 1)
  ELSE IF loadavg.first # <<>> /\ ~loadavg.stderr THEN ParseFloat(loadavg.first)
  ELSE IF uptime.found # <<>> /\ ~uptime.stderr THEN ParseFloat(uptime.found)
  ELSE IF top.found # <<>> /\ ~top.stderr /\ ParseFloat(top.found).kind # "NaN"
    THEN Hundredth(ParseFloat(top.found))
  ELSE IF head.found # <<>> THEN Hundredth(ParseFloat(head.found))
  ELSE Finite(0, 1)

\* the values a pattern of collectMemoryInfo reads from a line, in kB
MemValues == {0, 4000, 16000, 64000}

\* what `cat /proc/meminfo' can give
MeminfoResults ==
  [ rejects : {FALSE}, stderr : {FALSE}, stdout : {TRUE},
    memTotal : MemValues, memFree : MemValues, memAvailable : MemValues,
    buffers : MemValues, cached : MemValues ]
    \cup [ rejects : BOOLEAN, stderr : BOOLEAN, stdout : {FALSE},
           memTotal : {0}, memFree : {0}, memAvailable : {0},
           buffers : {0}, cached : {0} ]

\* words of the output of `free' and of `df'
W64000 == <<"6", "4", "0", "0", "0">>
W48000 == <<"4", "8", "0", "0", "0">>
W16000 == <<"1", "6", "0", "0", "0">>
WMem == <<"M", "e", "m", ":">>
W983M == <<"9", "8", ".", "3", "M">>
W491M == <<"4", "9", ".", "1", "M">>
W492M == <<"4", "9", ".", "2", "M">>
WRootfs == <<"r", "o", "o", "t", "f", "s">>
WSlash == <<"/">>

\* what `free | grep Mem' can give
FreeResults ==
  [ usable : BOOLEAN,
    parts : { <<WMem, W64000, W48000, W16000>>, <<WMem, W64000, W48000>>,
              <<WMem>>, <<WMem, <<"t", "o", "t", "a", "l">>, W48000, W16000>> } ]

\* what `df -h / | tail -n 1' can give: the line of the root file system,
\* the rest of a line that df wrapped after a long device name, a line with
\* no use, a full file system, an empty line
DfResults ==
  [ rejects : BOOLEAN, code : {0, 1},
    parts : { <<WRootfs, W983M, W491M, W492M, <<"5", "0", "%">>, WSlash>>,
              <<W983M, W491M, W492M, <<"5", "0", "%">>, WSlash>>,
              <<WRootfs, <<"0">>, <<"0">>, <<"0">>, <<"-">>, WSlash>>,
              <<WRootfs, <<"1", "6", "k">>, <<"1", "6", "k">>, <<"0">>,
                <<"1", "0", "0", "%">>, WSlash>>,
              << <<>> >> } ]

\* the texts the pattern [0-9.]+ of the uptime and of the top fallback can
\* find: none, a load, a load without a whole part, a percentage, a point
PatternTexts ==
  {<<>>, <<"0", ".", "5", "2">>, <<".", "5">>, <<"1", "2", ".", "5">>, <<".">>}

\* the first word of an output: as above, or a word that is no number
CpuTexts == PatternTexts \cup {<<"s", "h", ":">>}

\* one helper of the Collector runs on one output
GaugeMemory ==
  /\ gauge = NoGauge
  /\ \E res \in MeminfoResults, fallback \in FreeResults :
       gauge' = [ helper |-> "memory", res |-> res, fallback |-> fallback,
                  output |-> CollectMemoryInfoOf(res, fallback) ]
  /\ UNCHANGED notGaugeVars

GaugeDisk ==
  /\ gauge = NoGauge
  /\ \E res \in DfResults :
       gauge' = [helper |-> "disk", res |-> res, output |-> CollectDiskUsageOf(res)]
  /\ UNCHANGED notGaugeVars

GaugeCpu ==
  /\ gauge = NoGauge
  /\ \E rejects \in BOOLEAN, first \in CpuTexts, found \in [1..2 -> PatternTexts],
        usage \in CpuTexts, stderr \in [1..3 -> BOOLEAN] :
       LET loadavg == [rejects |-> rejects, stderr |-> stderr[1], first |-> first]
           uptime == [stderr |-> stderr[2], found |-> found[1]]
           top == [stderr |-> stderr[3], found |-> usage]
           head == [stderr |-> FALSE, found |-> found[2]]
       IN gauge' = [ helper |-> "cpu", loadavg |-> loadavg, uptime |-> uptime,
                     top |-> top, head |-> head,
                     output |-> CollectCpuLoadOf(loadavg, uptime, top, head) ]
  /\ UNCHANGED notGaugeVars

\* --------------------------------------------------------- the cron jobs

\* a property name every object inherits from Object.prototype, and the
\* value COLLECTION_INTERVALS[name] has for it (a function)
InheritedKeys == {"toString"}
InheritedValue == "function toString() { [native code] }"

\* the interval of the body of POST /routers/metrics/config: the six names,
\* the six cron expressions, a text that is neither, an inherited property
\* name, and the empty text
IntervalInputs ==
  DOMAIN CollectionIntervals
    \cup {CollectionIntervals[k] : k \in DOMAIN CollectionIntervals}
    \cup {"every second", ""} \cup InheritedKeys

\* COLLECTION_INTERVALS[interval] is truthy
Listed(interval) ==
  interval \in DOMAIN CollectionIntervals \cup InheritedKeys

\* the test at the head of updateCollectionInterval, negated
ValidInterval(interval) ==
  \/ Listed(interval)
  \/ \E k \in DOMAIN CollectionIntervals : CollectionIntervals[k] = interval

\* variant: the interval is taken as it was given
CronTimeAsGiven(interval) == interval

\* COLLECTION_INTERVALS[interval] || interval
CronTimeOf(interval) ==
  IF interval \in DOMAIN CollectionIntervals THEN CollectionIntervals[interval]
  ELSE IF interval \in InheritedKeys THEN InheritedValue
  ELSE interval

\* new CronJob(cronTime, ...) raises a TypeError when cronTime is no text
\* (the cron package parses it with the methods of a string)
CronJobThrows(cronTime) == cronTime = InheritedValue

\* job.start() and job.stop() on the CronJob id of the list `jobs'
StartJob(jobs, id) == [jobs EXCEPT ![id].running = TRUE]
StopJob(jobs, id) == [jobs EXCEPT ![id].running = FALSE]

\* variant: a reconfiguration that leaves the current job as it is
StopCurrentNever(jobs, id) == jobs

\* if (metricsCollectionJob.running) metricsCollectionJob.stop()
StopCurrent(jobs, id) == IF jobs[id].running THEN StopJob(jobs, id) ELSE jobs

\* variant: a startAll that starts the cleanup job only together with the
\* collection job
StartAllTogether(jobs, id, cleaning) ==
  IF ~jobs[id].running
    THEN [jobs |-> StartJob(jobs, id), cleaning |-> TRUE]
    ELSE [jobs |-> jobs, cleaning |-> cleaning]

\* the two tests of startAll: each job is started when it is not running
StartAllJobs(jobs, id, cleaning) ==
  [ jobs |-> IF ~jobs[id].running THEN StartJob(jobs, id) ELSE jobs,
    cleaning |-> IF ~cleaning THEN TRUE ELSE cleaning ]

\* exports.startAll
StartAll ==
  /\ cronJobs' = StartAllJobs(cronJobs, metricsCollectionJob, cleanupRunning).jobs
  /\ cleanupRunning' = StartAllJobs(cronJobs, metricsCollectionJob, cleanupRunning).cleaning
  /\ lastTick' = 0
  /\ wheelOp' = [op |-> "startAll", arg |-> Null]
  /\ UNCHANGED <<metricsCollectionJob, currentInterval, reconf, configStatus>>
  /\ UNCHANGED notWheelVars

\* exports.stopAll
StopAll ==
  /\ cronJobs' =
       IF cronJobs[metricsCollectionJob].running
         THEN StopJob(cronJobs, metricsCollectionJob) ELSE cronJobs
  /\ cleanupRunning' = IF cleanupRunning THEN FALSE ELSE cleanupRunning
  /\ lastTick' = 0
  /\ wheelOp' = [op |-> "stopAll", arg |-> Null]
  /\ UNCHANGED <<metricsCollectionJob, currentInterval, reconf, configStatus>>
  /\ UNCHANGED notWheelVars

\* updateMetricsConfig with body { interval }, and the synchronous call of
\* exports.updateCollectionInterval(interval) in it
UpdateCollectionInterval(interval) ==
  /\ Len(cronJobs) <= MaxReconfig
  /\ lastTick' = 0
  /\ wheelOp' = [op |-> "update", arg |-> interval]
  /\ IF interval = ""
       THEN /\ configStatus' = 400
            /\ UNCHANGED <<cronJobs, metricsCollectionJob, currentInterval, reconf>>
     ELSE IF ~ValidInterval(interval)
       THEN /\ reconf' = [interval |-> interval, returned |-> FALSE]
            /\ configStatus' = 400
            /\ UNCHANGED <<cronJobs, metricsCollectionJob, currentInterval>>
     ELSE IF CronJobThrows(CronTimeOf(interval))
       THEN /\ currentInterval' = CronTimeOf(interval)
            /\ cronJobs' = StopCurrent(cronJobs, metricsCollectionJob)
            /\ reconf' = [interval |-> interval, returned |-> FALSE]
            /\ configStatus' = 500
            /\ UNCHANGED metricsCollectionJob
     ELSE /\ currentInterval' = CronTimeOf(interval)
          /\ cronJobs' =
               StartJob(
                 Append(StopCurrent(cronJobs, metricsCollectionJob),
                        NewCronJob(CronTimeOf(interval))),
                 Len(cronJobs) + 1)
          /\ metricsCollectionJob' = Len(cronJobs) + 1
          /\ reconf' = [interval |-> interval, returned |-> TRUE]
          /\ configStatus' = 200
  /\ UNCHANGED cleanupRunning
  /\ UNCHANGED notWheelVars

\* the timer of a started CronJob fires at a time of its cronTime and calls
\* collectAllMetrics (a stopped CronJob has no timer)
CronTick(id) ==
  /\ id \in DOMAIN cronJobs
  /\ cronJobs[id].running
  /\ lastTick' = id
  /\ wheelOp' = [op |-> "tick", arg |-> Null]
  /\ UNCHANGED << cronJobs, metricsCollectionJob, cleanupRunning, currentInterval,
                  reconf, configStatus >>
  /\ UNCHANGED notWheelVars

\* ------------------------------------------------------ the subnet scan

\* the last octets that can hold a host: the target, a neighbour of it, two
\* high-priority router addresses, and two addresses of the remaining range
Octets == {TargetOctet, 35, 1, 254, 150, 251}

\* a host: the TCP ports that answer a probe, and what an SSH connect meets
\* ("openwrt": a shell that answers as OpenWrt; "error": the error event;
\* "silent": nothing before the deadline)
HostKinds ==
  { [ports |-> {}, ssh |-> "error"], [ports |-> {}, ssh |-> "silent"],
    [ports |-> {80}, ssh |-> "error"], [ports |-> {22}, ssh |-> "openwrt"],
    [ports |-> {22, 80}, ssh |-> "error"], [ports |-> {22}, ssh |-> "silent"] }

\* the subnets: a host that answers no port is told apart by its SSH
\* behaviour only at the target, the one address connected to unprobed
Lans ==
  { l \in [Octets -> HostKinds] :
      \A o \in Octets \ {TargetOctet} : l[o].ports = {} => l[o].ssh = "error" }

\* checkPortOpenQuick / checkPortOpen on one of `ports' of octet o
Open(l, o, ports) == o \in DOMAIN l /\ l[o].ports \cap ports # {}

\* the octets of `ips' that answer on one of `ports'
Active(l, ips, ports) == {o \in ips : Open(l, o, ports)}

\* the ports comprehensiveSubnetScan tries on the target, and on 34..38
TargetPorts == {22, 80, 443, 8080, 8081, 8443, 23, 53, 21, 25, 3389, 5000}
NearbyPorts == {22, 80, 443}
NearbyIPs == (34..38) \ {TargetOctet}

\* variant: a scan that force-adds the neighbours of the target as well
ComprehensiveAddsNearby(l) == {TargetOctet} \cup NearbyIPs

\* comprehensiveSubnetScan(subnet): the target is in the list whether a port
\* answered or not (approach 3), a neighbour only when a port answered
ComprehensiveSubnetScan(l) ==
  {TargetOctet} \cup Active(l, NearbyIPs, NearbyPorts)

\* the lists of quickRouterScan
RouterIPs == {36, 1, 254, 100, 101, 102, 2, 99, 253, 250, 252, 10, 20, 30, 50}
ExtraIPs == ((35..40) \ {36}) \cup {150, 160, 170, 180, 190, 200}
QuickTargetPorts == {22, 80, 443, 8080, 23}
QuickPorts == {22, 80, 443}

\* the octets quickRouterScan probes on subnet l
QuickProbed(l) ==
  LET first == Active(l, {TargetOctet}, QuickTargetPorts)
                 \cup Active(l, RouterIPs \ {TargetOctet}, QuickPorts)
  IN RouterIPs \cup (IF Cardinality(first) <= 1 THEN ExtraIPs ELSE {})

\* quickRouterScan(subnet)
QuickRouterScan(l) ==
  LET first == Active(l, {TargetOctet}, QuickTargetPorts)
                 \cup Active(l, RouterIPs \ {TargetOctet}, QuickPorts)
  IN IF Cardinality(first) <= 1
       THEN first \cup Active(l, ExtraIPs, {22})
       ELSE first

\* the devices the checks resolve with
Detected(o) ==
  [ipAddress |-> o, isOpenWrt |-> TRUE, sshSuccess |-> "true", note |-> FALSE]
Degraded(o) ==
  [ipAddress |-> o, isOpenWrt |-> TRUE, sshSuccess |-> "false", note |-> TRUE]
\* the placeholder of scanForOpenWrtDevices: it has no sshSuccess field
Placeholder(o) ==
  [ipAddress |-> o, isOpenWrt |-> TRUE, sshSuccess |-> "undefined", note |-> TRUE]

\* extendedCheckOpenWrtDevice raced against 5 s: a device, or null
ExtendedCheckOpenWrtDevice(l, o) ==
  IF o \notin DOMAIN l THEN Degraded(o)
  ELSE IF l[o].ssh = "openwrt" THEN Detected(o)
  ELSE IF l[o].ssh = "error" THEN Degraded(o)
  ELSE NullObj

\* quickCheckOpenWrtDevice raced against 3 s: a device, or null
QuickCheckOpenWrtDevice(l, o) ==
  IF o \in DOMAIN l /\ l[o].ssh = "openwrt" THEN Detected(o) ELSE NullObj

\* the checks of scanForOpenWrtDevices over the list ipsToCheck
CheckDevices(l, ipsToCheck) ==
  LET special ==
        IF TargetOctet \notin ipsToCheck THEN {}
        ELSE IF ExtendedCheckOpenWrtDevice(l, TargetOctet) # NullObj
          THEN {ExtendedCheckOpenWrtDevice(l, TargetOctet)}
        ELSE {Placeholder(TargetOctet)}
      others ==
        {QuickCheckOpenWrtDevice(l, o) : o \in ipsToCheck \ {TargetOctet}} \ {NullObj}
  IN [devices |-> special \cup others, partialScan |-> FALSE]

\* scanForOpenWrtDevices(subnet, username, password, activeIPs)
ScanForOpenWrtDevices(l, activeIPs) ==
  LET ipsToCheck == IF activeIPs = {} THEN QuickRouterScan(l) ELSE activeIPs
  IN IF ipsToCheck = {}
       THEN [devices |-> {}, partialScan |-> TRUE]
       ELSE CheckDevices(l, ipsToCheck)

\* the arrays of the scan. The pushes of parallel probes are taken in the
\* order of the list that is probed.
ActiveSeq(l, ips, ports) == SelectSeq(ips, LAMBDA o : Open(l, o, ports))

\* the elements of an array
Elements(list) == {list[i] : i \in DOMAIN list}

\* the array comprehensiveSubnetScan returns: the target is pushed once
\* (each later push stands under !activeIPs.includes(targetIP)), then the
\* neighbours 34..38 that answer
ComprehensiveList(l) ==
  <<TargetOctet>> \o ActiveSeq(l, <<34, 35, 37, 38>>, NearbyPorts)

\* the array quickRouterScan returns
QuickList(l) ==
  LET first ==
        ActiveSeq(l, <<TargetOctet>>, QuickTargetPorts)
          \o ActiveSeq(l, <<1, 254, 100, 101, 102, 2, 99, 253, 250, 252, 10, 20, 30, 50>>,
                       QuickPorts)
      extra ==
        SelectSeq(<<35, 37, 38, 39, 40, 150, 160, 170, 180, 190, 200>>,
                  LAMBDA o : Open(l, o, {22}) /\ o \notin Elements(first))
  IN IF Len(first) <= 1 THEN first \o extra ELSE first

\* variant: the two arrays joined as they are
KeepAll(list) == list

\* [...new Set(list)]: the first occurrence of each element, in order
RECURSIVE Unique(_)
Unique(list) ==
  IF list = <<>> THEN <<>>
  ELSE LET front == Unique(SubSeq(list, 1, Len(list) - 1))
           last == list[Len(list)]
       IN IF last \in Elements(front) THEN front ELSE Append(front, last)

\* the array devices of scanForOpenWrtDevices for the array ipsToCheck: the
\* device or the placeholder of the target first, the target filtered out of
\* the array, then the devices the quick checks of the rest resolved with
CheckDevicesList(l, ipsToCheck) ==
  LET special ==
        IF TargetOctet \notin Elements(ipsToCheck) THEN <<>>
        ELSE IF ExtendedCheckOpenWrtDevice(l, TargetOctet) # NullObj
          THEN <<ExtendedCheckOpenWrtDevice(l, TargetOctet)>>
        ELSE <<Placeholder(TargetOctet)>>
      rest == SelectSeq(ipsToCheck, LAMBDA o : o # TargetOctet)
      results == [i \in DOMAIN rest |-> QuickCheckOpenWrtDevice(l, rest[i])]
  IN special \o SelectSeq(results, LAMBDA device : device # NullObj)

\* the lists and the ports of scanSubnet
HighPriorityIPs == {1, 254, 100, 101, 102}
MediumPriorityIPs == {2, 99, 200, 253, 250, 252, 10, 20, 30, 50}
BatchPorts == {80, 443, 22, 8080, 8081}
BatchSize == 40
LastOctet == 254

\* the octets of 1..254 not in the two lists, in ascending order
RemainingIPs ==
  SelectSeq([i \in 1..LastOctet |-> i],
            LAMBDA o : o \notin HighPriorityIPs \cup MediumPriorityIPs)

\* the batches of the remaining range
BatchCount == (Len(RemainingIPs) + BatchSize - 1) \div BatchSize
BatchOf(k) ==
  { RemainingIPs[i] :
      i \in ((k - 1) * BatchSize + 1) ..
            (IF k * BatchSize < Len(RemainingIPs) THEN k * BatchSize
             ELSE Len(RemainingIPs)) }

\* the loop of scanSubnet over the batches, from batch k on
RECURSIVE ScanBatches(_, _, _, _)
ScanBatches(l, activeIPs, probed, k) ==
  LET found == activeIPs \cup Active(l, BatchOf(k), BatchPorts)
      seen == probed \cup BatchOf(k)
      n == Cardinality(found)
  IN IF n >= 5 \/ (n > 0 /\ k >= 4)
       THEN [activeIPs |-> found, partialScan |-> TRUE, probed |-> seen]
     ELSE IF n > 0 /\ k >= 8
       THEN [activeIPs |-> found, partialScan |-> TRUE, probed |-> seen]
     ELSE IF k < BatchCount
       THEN ScanBatches(l, found, seen, k + 1)
     ELSE [activeIPs |-> found, partialScan |-> FALSE, probed |-> seen]

\* scanSubnet(subnet), with the octets it probed
ScanSubnet(l) ==
  LET high == Active(l, HighPriorityIPs, BatchPorts)
      both == high \cup Active(l, MediumPriorityIPs, BatchPorts)
  IN IF Cardinality(high) >= 2
       THEN [activeIPs |-> high, partialScan |-> TRUE, probed |-> HighPriorityIPs]
     ELSE IF Cardinality(both) >= 3
       THEN [ activeIPs |-> both, partialScan |-> TRUE,
              probed |-> HighPriorityIPs \cup MediumPriorityIPs ]
     ELSE ScanBatches(l, both, HighPriorityIPs \cup MediumPriorityIPs, 1)

\* the scan meets one of the subnets
Network ==
  /\ lan = <<>>
  /\ lan' \in Lans
  /\ UNCHANGED <<survey, sweep>>
  /\ UNCHANGED notSurveyVars

\* startScanJob: const specificIPs = await comprehensiveSubnetScan(subnet)
SurveyTargeted ==
  /\ lan # <<>>
  /\ survey.pc = "idle"
  /\ survey' = [survey EXCEPT !.pc = "quick",
                              !.specificIPs = ComprehensiveSubnetScan(lan),
                              !.probed = {TargetOctet} \cup NearbyIPs]
  /\ UNCHANGED <<lan, sweep>>
  /\ UNCHANGED notSurveyVars

\* startScanJob: quickRouterScan, the union of the two lists, and the
\* answer when the union is empty
SurveyCommon ==
  /\ survey.pc = "quick"
  /\ LET allActiveIPs == survey.specificIPs \cup QuickRouterScan(lan)
     IN survey' = [survey EXCEPT
                     !.pc = IF allActiveIPs = {} THEN "done" ELSE "openwrt",
                     !.allActiveIPs = allActiveIPs,
                     !.ipList = Unique(ComprehensiveList(lan) \o QuickList(lan)),
                     !.probed = @ \cup QuickProbed(lan)]
  /\ UNCHANGED <<lan, sweep>>
  /\ UNCHANGED notSurveyVars

\* startScanJob: scanForOpenWrtDevices over the union; the job is completed
SurveyFingerprint ==
  /\ survey.pc = "openwrt"
  /\ survey' = [survey EXCEPT
                  !.pc = "done",
                  !.results = ScanForOpenWrtDevices(lan, survey.allActiveIPs),
                  !.deviceList = CheckDevicesList(lan, survey.ipList)]
  /\ UNCHANGED <<lan, sweep>>
  /\ UNCHANGED notSurveyVars

\* a call of scanSubnet on the subnet
SurveySweep ==
  /\ lan # <<>>
  /\ sweep = NullObj
  /\ sweep' = ScanSubnet(lan)
  /\ UNCHANGED <<lan, survey>>
  /\ UNCHANGED notSurveyVars

\* ------------------------------------------------- enrolment of routers

\* values of the columns that requests send
IPs == {"10.0.0.1", "10.0.0.2"}
Hostnames == {"", "gw"}
Names == {"r1", "r2"}

\* one MAC address written in two cases
MacUpper == "AA:BB:CC:00:00:01"
MacLower == "aa:bb:cc:00:00:01"
Macs == {MacUpper, MacLower}

\* a macAddress that asks addDiscoveredRouter for a generated one, and the
\* address generated from the IP: `02:${hex of the four octets}:ff`
AutoTag == "auto-1"
AutoMac(ip) == IF ip = "10.0.0.1" THEN "02:0a:00:00:01:ff" ELSE "02:0a:00:00:02:ff"

\* Routers.status: ENUM('online', 'offline', 'unknown'), default 'unknown'
StatusEnum == {"online", "offline", "unknown"}

\* a || b on strings: b when a is null or empty
OrElse(a, b) == IF a = Null \/ a = "" THEN b ELSE a

\* variant: a table whose status column takes any text
AcceptedAnyStatus(rows, id, row) ==
  /\ row.name \notin {Null, ""}
  /\ row.ipAddress \notin {Null, ""}
  /\ \A q \in DOMAIN rows \ {id} :
       /\ rows[q].name # row.name
       /\ row.macAddress # Null => rows[q].macAddress # row.macAddress

\* whether the table takes `row' as the row of id: the status is a value of
\* the enum, name and ipAddress are not empty, name is unique and macAddress
\* is unique among the rows that have one
Accepted(rows, id, row) ==
  /\ row.status \in StatusEnum
  /\ row.name \notin {Null, ""}
  /\ row.ipAddress \notin {Null, ""}
  /\ \A q \in DOMAIN rows \ {id} :
       /\ rows[q].name # row.name
       /\ row.macAddress # Null => rows[q].macAddress # row.macAddress

\* POST /routers with body { name, ipAddress, macAddress }: the hostname is
\* the address, the status the default (the hostname fetch finds no shell)
CreateRouterRow(name, ip, mac) ==
  /\ requests < MaxRequests
  /\ batch.round = 0
  /\ requests' = requests + 1
  /\ fleetSeq < MaxRouters
  /\ LET row == [ name |-> name, hostname |-> ip, ipAddress |-> ip,
                  macAddress |-> mac, status |-> "unknown" ]
     IN /\ Accepted(fleet, fleetSeq + 1, row)
        /\ fleet' = (fleetSeq + 1 :> row) @@ fleet
        /\ fleetSeq' = fleetSeq + 1
  /\ UNCHANGED <<lastAdd, batch>>
  /\ UNCHANGED notEnrolVars

\* the bodies of PUT /routers/:id
Patches ==
  {[status |-> st] : st \in StatusEnum \cup {"active"}}
    \cup {[macAddress |-> mac] : mac \in Macs}

\* a row with the fields of a patch written over it
Patched(row, patch) ==
  [f \in DOMAIN row |-> IF f \in DOMAIN patch THEN patch[f] ELSE row[f]]

\* PUT /routers/:id: Router.update(req.body, { where: { id } })
UpdateRouterRow(r, patch) ==
  /\ requests < MaxRequests
  /\ batch.round = 0
  /\ requests' = requests + 1
  /\ r \in DOMAIN fleet
  /\ Patched(fleet[r], patch) # fleet[r]
  /\ Accepted(fleet, r, Patched(fleet[r], patch))
  /\ fleet' = [fleet EXCEPT ![r] = Patched(fleet[r], patch)]
  /\ UNCHANGED <<fleetSeq, lastAdd, batch>>
  /\ UNCHANGED notEnrolVars

\* POST /routers/:id/test-connection, and the save of a collection attempt:
\* the status becomes online or offline
StatusObserved(r, patch) ==
  /\ requests < MaxRequests
  /\ batch.round = 0
  /\ requests' = requests + 1
  /\ r \in DOMAIN fleet
  /\ SaveRouter(fleet, r, patch) # fleet
  /\ fleet' = SaveRouter(fleet, r, patch)
  /\ UNCHANGED <<fleetSeq, lastAdd, batch>>
  /\ UNCHANGED notEnrolVars

\* the rows a lookup by macAddress finds
ByMac(rows, mac) ==
  IF mac = Null THEN {} ELSE {r \in DOMAIN rows : rows[r].macAddress = mac}

\* the row Router.create gets from both add handlers
NewEnrolled(name, hostname, ip, mac) ==
  [ name |-> OrElse(name, OrElse(hostname, ip)), hostname |-> OrElse(hostname, ""),
    ipAddress |-> ip, macAddress |-> mac, status |-> "active" ]

\* POST /scanner/add with body { ipAddress, hostname, macAddress, name }
AddDiscoveredRouter(ip, hostname, mac, name) ==
  LET finalMacAddress == IF mac = AutoTag THEN AutoMac(ip) ELSE mac
      byMac == ByMac(fleet, finalMacAddress)
      existing ==
        IF byMac # {} THEN byMac
        ELSE {r \in DOMAIN fleet :
                fleet[r].hostname = OrElse(hostname, "") \/ fleet[r].ipAddress = ip}
      newRouter == NewEnrolled(name, hostname, ip, finalMacAddress)
  IN /\ requests < MaxRequests
     /\ batch.round = 0
     /\ requests' = requests + 1
     /\ IF existing # {}
          THEN \E r \in existing :
                 LET row == [ fleet[r] EXCEPT
                                !.ipAddress = ip,
                                !.hostname = OrElse(hostname, @),
                                !.macAddress = OrElse(finalMacAddress, @),
                                !.name = OrElse(name, @) ]
                 IN IF Accepted(fleet, r, row)
                      THEN /\ fleet' = [fleet EXCEPT ![r] = row]
                           /\ lastAdd' = "updated"
                           /\ fleetSeq' = fleetSeq
                      ELSE /\ lastAdd' = "failed"
                           /\ UNCHANGED <<fleet, fleetSeq>>
          ELSE IF fleetSeq < MaxRouters /\ Accepted(fleet, fleetSeq + 1, newRouter)
            THEN /\ fleet' = (fleetSeq + 1 :> newRouter) @@ fleet
                 /\ fleetSeq' = fleetSeq + 1
                 /\ lastAdd' = "added"
            ELSE /\ lastAdd' = "failed"
                 /\ UNCHANGED <<fleet, fleetSeq>>
     /\ UNCHANGED batch
     /\ UNCHANGED notEnrolVars

\* a device of an add-multiple payload; one has neither address nor hostname
NoAddress == [ipAddress |-> Null, hostname |-> "", macAddress |-> Null]
Discovered ==
  [ipAddress : IPs, hostname : Hostnames, macAddress : Macs \cup {Null}]
    \cup {NoAddress}

\* the payloads: one to MaxDevices devices
Payloads == UNION {[1..n -> Discovered] : n \in 1..MaxDevices}

\* POST /scanner/add-multiple with body { devices }
SubmitBatch(devices) ==
  /\ batch.round = 0
  /\ batch' = [NoBatch EXCEPT !.round = 1, !.devices = devices]
  /\ UNCHANGED <<fleet, fleetSeq, lastAdd, requests>>
  /\ UNCHANGED notEnrolVars

\* ... one turn of the loop over the devices
BatchStep ==
  /\ batch.round > 0
  /\ batch.next <= Len(batch.devices)
  /\ LET i == batch.next
         device == batch.devices[i]
         byMac == ByMac(fleet, device.macAddress)
         existing ==
           IF byMac # {} THEN byMac
           ELSE {r \in DOMAIN fleet :
                   /\ device.ipAddress # Null => fleet[r].ipAddress = device.ipAddress
                   /\ device.hostname # "" => fleet[r].hostname = device.hostname}
         newRouter == NewEnrolled(Null, device.hostname, device.ipAddress, device.macAddress)
         step == [batch EXCEPT !.next = i + 1]
     IN IF device.ipAddress = Null /\ device.hostname = ""
          THEN /\ batch' = [step EXCEPT !.failed = @ \cup {i}]
               /\ UNCHANGED <<fleet, fleetSeq>>
        ELSE IF existing # {}
          THEN \E r \in existing :
                 LET row == [ fleet[r] EXCEPT
                                !.ipAddress = OrElse(device.ipAddress, @),
                                !.hostname = OrElse(device.hostname, @),
                                !.macAddress = OrElse(device.macAddress, @) ]
                 IN IF Accepted(fleet, r, row)
                      THEN /\ fleet' = [fleet EXCEPT ![r] = row]
                           /\ batch' = [step EXCEPT !.updated = @ \cup {i}]
                           /\ fleetSeq' = fleetSeq
                      ELSE /\ batch' = [step EXCEPT !.failed = @ \cup {i}]
                           /\ UNCHANGED <<fleet, fleetSeq>>
        ELSE IF fleetSeq < MaxRouters /\ Accepted(fleet, fleetSeq + 1, newRouter)
          THEN /\ fleet' = (fleetSeq + 1 :> newRouter) @@ fleet
               /\ fleetSeq' = fleetSeq + 1
               /\ batch' = [step EXCEPT !.added = @ \cup {i}]
          ELSE /\ batch' = [step EXCEPT !.failed = @ \cup {i}]
               /\ UNCHANGED <<fleet, fleetSeq>>
  /\ UNCHANGED <<lastAdd, requests>>
  /\ UNCHANGED notEnrolVars

\* the first request was answered: the client submits the same payload again
ResubmitBatch ==
  /\ batch.round = 1
  /\ batch.next > Len(batch.devices)
  /\ batch' = [batch EXCEPT !.round = 2, !.next = 1, !.added = {}, !.updated = {},
                            !.failed = {}, !.after = fleet]
  /\ UNCHANGED <<fleet, fleetSeq, lastAdd, requests>>
  /\ UNCHANGED notEnrolVars

\* ------------------------------------------------------ the retention sweep

\* metricsRetentionDays of the routers of the sweep: a number of days within
\* the validated range 1..365, or 0 for a value that is not set (null, which
\* is falsy as 0 is)
RetentionChoices == {0, 1, 7}

\* router.metricsRetentionDays || 30
DefaultRetention == 30
\* variant: a sweep that applies the default to every router
RetentionDaysOfNobody(d) == DefaultRetention

RetentionDays(d) == IF d = 0 THEN DefaultRetention ELSE d

\* cutoffDate = new Date(); cutoffDate.setDate(cutoffDate.getDate() - days)
CutoffDate(t, days) == t - days

\* Metric.deleteMany({ routerId, timestamp: { $lt: cutoffDate } })
DeleteMany(ms, r, cutoffDate) ==
  {m \in ms : ~(m.routerId = r /\ m.timestamp < cutoffDate)}

\* POST /routers with metricsRetentionDays d (the value stays as created)
CreateRouterKeeping(d) ==
  /\ Cardinality(DOMAIN keepDays) < MaxRouters
  /\ keepDays' = (Cardinality(DOMAIN keepDays) + 1 :> d) @@ keepDays
  /\ UNCHANGED <<samples, sampleSeq, today, cleanup>>
  /\ UNCHANGED notRetVars

\* a Metric row of router r is stored, with timestamp now
StoreSample(r) ==
  /\ r \in DOMAIN keepDays
  /\ sampleSeq < MaxSamples
  /\ sampleSeq' = sampleSeq + 1
  /\ samples' = samples \cup {[id |-> sampleSeq + 1, routerId |-> r, timestamp |-> today]}
  /\ UNCHANGED <<keepDays, today, cleanup>>
  /\ UNCHANGED notRetVars

\* a day passes (the clock counts days, and a sweep, which takes the time of
\* a query and of one delete per router, begins and ends within one)
DayPasses ==
  /\ today < MaxDay
  /\ cleanup.pc = "idle"
  /\ today' = today + 1
  /\ UNCHANGED <<keepDays, samples, sampleSeq, cleanup>>
  /\ UNCHANGED notRetVars

\* cleanupOldMetrics, the cron callback: Router.find()
CleanupQuery ==
  /\ cleanup.pc = "idle"
  /\ cleanup' = [pc |-> "found", found |-> keepDays]
  /\ UNCHANGED <<keepDays, samples, sampleSeq, today>>
  /\ UNCHANGED notRetVars

\* ... the query has returned: every callback of routers.map runs up to its
\* await, so the cutoff of every router found is taken at the same time
CleanupDispatch ==
  /\ cleanup.pc = "found"
  /\ cleanup' =
       IF DOMAIN cleanup.found = {}
         THEN [pc |-> "idle", cutoff |-> <<>>]
         ELSE [ pc |-> "deleting", found |-> cleanup.found,
                cutoff |-> [r \in DOMAIN cleanup.found |->
                              CutoffDate(today, RetentionDays(cleanup.found[r]))] ]
  /\ UNCHANGED <<keepDays, samples, sampleSeq, today>>
  /\ UNCHANGED notRetVars

\* ... Metric.deleteMany of router r runs; after the last one the sweep ends
CleanupDelete(r) ==
  /\ cleanup.pc = "deleting"
  /\ r \in DOMAIN cleanup.cutoff
  /\ samples' = DeleteMany(samples, r, cleanup.cutoff[r])
  /\ cleanup' =
       IF DOMAIN cleanup.cutoff = {r}
         THEN [pc |-> "idle", cutoff |-> <<>>]
         ELSE [cleanup EXCEPT
                 !.cutoff = [q \in DOMAIN cleanup.cutoff \ {r} |-> cleanup.cutoff[q]]]
  /\ UNCHANGED <<keepDays, sampleSeq, today>>
  /\ UNCHANGED notRetVars

Next ==
  \/ \E subnet \in Subnets : CreateScanJob(subnet)
  \/ \E j \in JobIds : StartScanJob(j)
  \/ \E j \in JobIds : ComprehensiveReturns(j)
  \/ \E j \in JobIds : QuickReturns(j)
  \/ \E j \in JobIds : OpenWrtReturns(j)
  \/ \E jobId \in 1..(MaxJobs + 1) : CheckScanStatus(jobId)
  \/ EvictionSweep

Spec == Init /\ [][Next]_vars

\* the registry with the time limits of the awaits: a timer bounds every
\* probe and every check, so each await of a scan body returns
TimedNext ==
  \/ \E subnet \in Subnets : CreateScanJob(subnet)
  \/ \E j \in JobIds : StartScanJob(j)
  \/ \E j \in JobIds : ComprehensiveReturns(j)
  \/ \E j \in JobIds : QuickReturns(j)
  \/ \E j \in JobIds : OpenWrtReturns(j)
  \/ \E jobId \in 1..(MaxJobs + 1) : CheckScanStatus(jobId)
  \/ TimedSweep

LiveSpec ==
  /\ Init
  /\ [][TimedNext]_vars
  /\ \A j \in JobIds :
       /\ WF_vars(ComprehensiveReturns(j))
       /\ WF_vars(QuickReturns(j))
       /\ WF_vars(OpenWrtReturns(j))

CollectNext ==
  \/ \E b \in BOOLEAN : CreateRouter(b)
  \/ \E r \in RouterIds, b \in BOOLEAN : UpdateRouter(r, b)
  \/ TickQuery
  \/ TickDispatch
  \/ \E r \in RouterIds : TickCollectReturns(r)
  \/ \E r \in RouterIds : TickSave(r)
  \/ \E r \in RouterIds : TickInsert(r)
  \/ \E r \in RouterIds : ManualFind(r)
  \/ \E r \in RouterIds : ManualProbe(r)
  \/ \E r \in RouterIds : ManualSave(r)
  \/ \E r \in RouterIds : ManualCollectReturns(r)
  \/ \E r \in RouterIds : ManualInsert(r)
  \/ \E r \in RouterIds : DeleteFind(r)
  \/ \E r \in RouterIds : DeleteMetrics(r)
  \/ \E r \in RouterIds : DeleteRouterRow(r)

CollectSpec == Init /\ [][CollectNext]_vars

BatteryNext == BatteryCollect \/ BatteryStore

BatterySpec == Init /\ [][BatteryNext]_vars

RetentionNext ==
  \/ \E d \in RetentionChoices : CreateRouterKeeping(d)
  \/ \E r \in RouterIds : StoreSample(r)
  \/ DayPasses
  \/ CleanupQuery
  \/ CleanupDispatch
  \/ \E r \in RouterIds : CleanupDelete(r)

RetentionSpec == Init /\ [][RetentionNext]_vars

EnrolNext ==
  \/ \E name \in Names, ip \in IPs, mac \in Macs \cup {Null} : CreateRouterRow(name, ip, mac)
  \/ \E r \in RouterIds, patch \in Patches : UpdateRouterRow(r, patch)
  \/ \E r \in RouterIds, patch \in {OfflinePatch, OnlinePatch} : StatusObserved(r, patch)
  \/ \E ip \in IPs, hostname \in Hostnames, mac \in Macs \cup {Null, AutoTag},
        name \in Names \cup {Null} : AddDiscoveredRouter(ip, hostname, mac, name)
  \/ \E devices \in Payloads : SubmitBatch(devices)
  \/ BatchStep
  \/ ResubmitBatch

EnrolSpec == Init /\ [][EnrolNext]_vars

SurveyNext ==
  \/ Network
  \/ SurveyTargeted
  \/ SurveyCommon
  \/ SurveyFingerprint
  \/ SurveySweep

SurveySpec == Init /\ [][SurveyNext]_vars

WheelNext ==
  \/ StartAll
  \/ StopAll
  \/ \E interval \in IntervalInputs : UpdateCollectionInterval(interval)
  \/ \E id \in 1..(MaxReconfig + 1) : CronTick(id)

WheelSpec == Init /\ [][WheelNext]_vars

GaugeNext == GaugeMemory \/ GaugeDisk \/ GaugeCpu

GaugeSpec == Init /\ [][GaugeNext]_vars

\* ------------------------------------------- the sessions of the shell client

\* the exported functions that call createSSHClient
ShellUsers == {"collectMetrics", "testConnection", "fetchHostname", "fetchMacAddress"}

\* the awaits on the session a call has at most: the six helpers of the
\* Collector, the three commands of the test and of the hostname fetcher, the
\* five commands of the MAC fetcher
ShellCommands(fn) ==
  CASE fn = "collectMetrics" -> 6
    [] fn = "testConnection" -> 3
    [] fn = "fetchHostname" -> 3
    [] fn = "fetchMacAddress" -> 5

\* the awaits of the Collector and of the test stand in a try/catch of their
\* own; those of the two fetchers stand in the try of the whole function
CatchesCommand(fn) == fn \in {"collectMetrics", "testConnection"}

\* the test and the fetchers go on to the next command only while none has
\* succeeded; the Collector runs all of its helpers
StopsAtSuccess(fn) == fn # "collectMetrics"

\* one of the functions is called (the probe has found port 22 open)
ShellCall(fn) ==
  /\ session.pc = "idle"
  /\ session' = [session EXCEPT !.fn = fn, !.pc = "connect"]
  /\ UNCHANGED notShellVars

\* createSSHClient(router) settles, at the latest when readyTimeout ends the
\* handshake: with the client, or with null, on which the function returns
ShellConnects(sshOk) ==
  /\ session.pc = "connect"
  /\ session' = IF CreateSSHClient(sshOk) = Null
                THEN [session EXCEPT !.pc = "returned"]
                ELSE [session EXCEPT !.pc = "exec", !.open = TRUE]
  /\ UNCHANGED notShellVars

\* the awaited ssh.execCommand settles: it resolves with a good or a bad
\* output, or rejects. A rejection that no try/catch of its own holds goes to
\* the catch of the function, which returns; after the last command, or the
\* first good one where the function stops there, ssh.dispose() and return
ExecSettles(o) ==
  /\ session.pc = "exec"
  /\ LET outs == Append(session.outs, o)
     IN session' =
          IF o = "throws" /\ ~CatchesCommand(session.fn)
            THEN [session EXCEPT !.outs = outs, !.pc = "returned"]
          ELSE IF \/ Len(outs) = ShellCommands(session.fn)
                  \/ (o = "ok" /\ StopsAtSuccess(session.fn))
            THEN [session EXCEPT !.outs = outs, !.pc = "returned", !.open = FALSE,
                               !.disposed = session.disposed + 1]
          ELSE [session EXCEPT !.outs = outs]
  /\ UNCHANGED notShellVars

\* the device never answers the command: await ssh.execCommand(...) has no
\* timer beside it, so no step of the call follows
ExecHangs ==
  /\ session.pc = "exec"
  /\ session' = [session EXCEPT !.pc = "hung"]
  /\ UNCHANGED notShellVars

ShellNext ==
  \/ \E fn \in ShellUsers : ShellCall(fn)
  \/ \E sshOk \in BOOLEAN : ShellConnects(sshOk)
  \/ \E o \in CmdOutcomes : ExecSettles(o)
  \/ ExecHangs

\* ------------------------------------------------------ the fingerprinters

\* the lengths of hostnameCommands, openWrtCommands and macCommands
HostnameCommands == 5
OpenWrtCommands == 4
MacCommands == 3

\* resolve(v) in handler `by': the first call settles the promise
Resolve(c, v, by) ==
  [c EXCEPT !.resolves = @ + 1,
            !.value = IF c.value = Pending THEN v ELSE @,
            !.by = IF c.value = Pending THEN by ELSE @]

\* conn.exec(cmd, ...) of the next command of the chain
Exec(c) ==
  [c EXCEPT !.index = @ + 1, !.wait = "exec",
            !.log = Append(@, [chain |-> c.chain, index |-> c.index + 1])]

\* finishCheck: clearTimeout, the flag, conn.end(), resolve({...})
FinishCheck(c) ==
  Resolve([c EXCEPT !.timer = FALSE, !.connectionFinished = TRUE, !.ends = @ + 1,
                    !.chain = 4, !.wait = "none"],
          [Detected(c.ip) EXCEPT !.isOpenWrt = c.isOpenWrt], "finish")

TryNextMacCommand(c) ==
  IF c.index >= MacCommands \/ c.connectionFinished THEN FinishCheck(c) ELSE Exec(c)

GetMacAddress(c) == TryNextMacCommand([c EXCEPT !.chain = 3, !.index = 0])

TryNextOpenWrtCommand(c) ==
  IF c.index >= OpenWrtCommands \/ c.connectionFinished THEN GetMacAddress(c) ELSE Exec(c)

CheckIfOpenWrt(c) == TryNextOpenWrtCommand([c EXCEPT !.chain = 2, !.index = 0])

TryNextHostnameCommand(c) ==
  IF c.index >= HostnameCommands \/ c.connectionFinished \/ c.hostnameFound
    THEN CheckIfOpenWrt(c) ELSE Exec(c)

\* the tryNext...Command of the chain the check is in
TryNext(c) ==
  CASE c.chain = 1 -> TryNextHostnameCommand(c)
    [] c.chain = 2 -> TryNextOpenWrtCommand(c)
    [] c.chain = 3 -> TryNextMacCommand(c)
    [] OTHER -> c

\* variant: a router-class chain that goes on after a command has succeeded
OnCloseTryingOn(c, good) ==
  IF c.connectionFinished THEN [c EXCEPT !.wait = "none"]
  ELSE IF ~good THEN TryNext([c EXCEPT !.wait = "none"])
  ELSE CASE c.chain = 1 -> CheckIfOpenWrt([c EXCEPT !.wait = "none", !.hostnameFound = TRUE])
         [] c.chain = 2 -> TryNextOpenWrtCommand([c EXCEPT !.wait = "none", !.isOpenWrt = TRUE])
         [] c.chain = 3 -> FinishCheck([c EXCEPT !.wait = "none", !.macAddress = TRUE])
         [] OTHER -> c

\* stream.on('close') of a command of a chain: nothing when the flag is set;
\* on a good output the chain has succeeded and the next one begins (after
\* the last, finishCheck); else the next command of the chain
OnClose(c, good) ==
  IF c.connectionFinished THEN [c EXCEPT !.wait = "none"]
  ELSE IF ~good THEN TryNext([c EXCEPT !.wait = "none"])
  ELSE CASE c.chain = 1 -> CheckIfOpenWrt([c EXCEPT !.wait = "none", !.hostnameFound = TRUE])
         [] c.chain = 2 -> GetMacAddress([c EXCEPT !.wait = "none", !.isOpenWrt = TRUE])
         [] c.chain = 3 -> FinishCheck([c EXCEPT !.wait = "none", !.macAddress = TRUE])
         [] OTHER -> c

\* the handler of a timer or of the error event of a check: if the flag is
\* not set, set it, conn.end() and resolve(v); the timer is cleared or spent
OnFailure(c, v, by) ==
  IF c.connectionFinished THEN [c EXCEPT !.timer = IF by = "timer" THEN FALSE ELSE @]
  ELSE Resolve([c EXCEPT !.timer = FALSE, !.connectionFinished = TRUE, !.ends = @ + 1],
               v, by)

\* the quick checks of the addresses that are left begin (the model has one
\* at most), each raced against a timer of 3 s; with none left the scan returns
StartQuick(f) ==
  IF f.scan.ipsToCheck = <<>> THEN [f EXCEPT !.scan.pc = "done"]
  ELSE [f EXCEPT !.scan.pc = "quick", !.scan.outer3 = TRUE,
                 !.scan.checked = Append(@, [ip |-> Head(f.scan.ipsToCheck), mode |-> "quick"]),
                 !.quick = [NoCheck EXCEPT !.pc = "connecting", !.timer = TRUE,
                                           !.ip = Head(f.scan.ipsToCheck)]]

\* variant: a race the timer does not settle: the await goes on until the
\* check resolves
AfterSpecialWaiting(f, specialDevice) ==
  IF specialDevice = NullObj /\ f.ext.value = Pending THEN f
  ELSE StartQuick(
         [f EXCEPT !.scan.devices =
                     Append(@, IF specialDevice # NullObj THEN specialDevice
                               ELSE Placeholder(TargetOctet)),
                   !.scan.ipsToCheck = SelectSeq(@, LAMBDA o : o # TargetOctet)])

\* the race of the extended check has settled with specialDevice: the device
\* or the placeholder is pushed, the target is filtered out of ipsToCheck
AfterSpecial(f, specialDevice) ==
  StartQuick(
    [f EXCEPT !.scan.devices =
                Append(@, IF specialDevice # NullObj THEN specialDevice
                          ELSE Placeholder(TargetOctet)),
              !.scan.ipsToCheck = SelectSeq(@, LAMBDA o : o # TargetOctet)])

\* Promise.all of the races of the quick checks has settled: the devices
\* that are not null are pushed and the scan returns
AfterQuick(f, device) ==
  [f EXCEPT !.scan.devices = IF device # NullObj THEN Append(@, device) ELSE @,
            !.scan.pc = "done"]

\* a handler of the extended check has run; if it settled the promise the
\* scan awaits, the scan goes on
SetExt(f, c) ==
  IF f.scan.pc = "special" /\ c.value # Pending
    THEN AfterSpecial([f EXCEPT !.ext = c], c.value)
    ELSE [f EXCEPT !.ext = c]

\* likewise for the quick check
SetQuick(f, c) ==
  IF f.scan.pc = "quick" /\ c.value # Pending
    THEN AfterQuick([f EXCEPT !.quick = c], c.value)
    ELSE [f EXCEPT !.quick = c]

\* the arrays scanForOpenWrtDevices is called with
Candidates == {<<TargetOctet>>, <<TargetOctet, 35>>, <<35>>, <<35, TargetOctet>>}

\* scanForOpenWrtDevices(subnet, username, password, activeIPs): with the
\* target in the array, extendedCheckOpenWrtDevice is called (its timer of
\* 8 s set, conn.connect begun, or raised and caught) and raced against a
\* timer of 5 s; else the quick checks begin
ScanCall(activeIPs, raises) ==
  /\ finger.scan.pc = "idle"
  /\ LET f == [finger EXCEPT !.scan.activeIPs = activeIPs, !.scan.ipsToCheck = activeIPs]
     IN finger' =
          IF TargetOctet \in Elements(activeIPs)
            THEN SetExt(
                   [f EXCEPT !.scan.pc = "special", !.scan.outer5 = TRUE,
                             !.scan.checked = <<[ip |-> TargetOctet, mode |-> "extended"]>>],
                   IF raises
                     THEN Resolve([NoCheck EXCEPT !.pc = "raised", !.ip = TargetOctet,
                                                  !.connectionFinished = TRUE],
                                  Degraded(TargetOctet), "catch")
                     ELSE [NoCheck EXCEPT !.pc = "connecting", !.ip = TargetOctet,
                                          !.timer = TRUE])
            ELSE StartQuick(f)
  /\ UNCHANGED notFingerVars

\* conn.on('ready') of the extended check: the hostname chain begins
ExtReady ==
  /\ finger.ext.pc = "connecting"
  /\ finger' =
       SetExt(finger,
              IF finger.ext.connectionFinished
                THEN [finger.ext EXCEPT !.pc = "ready"]
                ELSE TryNextHostnameCommand([finger.ext EXCEPT !.pc = "ready", !.chain = 1]))
  /\ UNCHANGED notFingerVars

\* the callback of conn.exec: with an error, or with the flag set, the next
\* command; else the stream is listened to
ExtExec(err) ==
  /\ finger.ext.wait = "exec"
  /\ finger' =
       SetExt(finger,
              IF err \/ finger.ext.connectionFinished
                THEN TryNext([finger.ext EXCEPT !.wait = "none"])
                ELSE [finger.ext EXCEPT !.wait = "stream"])
  /\ UNCHANGED notFingerVars

\* the stream of the command closes, with a good output or not
ExtClose(good) ==
  /\ finger.ext.wait = "stream"
  /\ finger' = SetExt(finger, OnClose(finger.ext, good))
  /\ UNCHANGED notFingerVars

\* the timer of 8 s fires: after the timer of 5 s of the race, and not while
\* the handshake lasts, which readyTimeout ends with an error at 6 s
ExtTimer ==
  /\ finger.ext.timer
  /\ ~finger.scan.outer5
  /\ finger.ext.pc = "ready"
  /\ finger' = SetExt(finger, OnFailure(finger.ext, NullObj, "timer"))
  /\ UNCHANGED notFingerVars

\* conn.on('error') of the extended check, during the handshake or after it
ExtError ==
  /\ finger.ext.pc \in {"connecting", "ready"}
  /\ finger' =
       SetExt(finger,
              [OnFailure(finger.ext, Degraded(TargetOctet), "error") EXCEPT !.pc = "failed"])
  /\ UNCHANGED notFingerVars

\* the timer of 5 s of the race fires: if the race has not settled it
\* settles with null
OuterDeadline5 ==
  /\ finger.scan.outer5
  /\ finger' =
       LET f == [finger EXCEPT !.scan.outer5 = FALSE]
       IN IF finger.scan.pc = "special"
            THEN AfterSpecial([f EXCEPT !.scan.late = @ \cup {TargetOctet}], NullObj)
            ELSE f
  /\ UNCHANGED notFingerVars

\* conn.on('ready') of the quick check: the one command is sent
QuickReady ==
  /\ finger.quick.pc = "connecting"
  /\ finger' =
       SetQuick(finger,
                IF finger.quick.connectionFinished
                  THEN [finger.quick EXCEPT !.pc = "ready"]
                  ELSE [finger.quick EXCEPT !.pc = "ready", !.wait = "exec"])
  /\ UNCHANGED notFingerVars

\* the callback of conn.exec of the quick check
QuickExec(err) ==
  /\ finger.quick.wait = "exec"
  /\ finger' =
       SetQuick(finger,
                IF err \/ finger.quick.connectionFinished
                  THEN Resolve([finger.quick EXCEPT !.wait = "none", !.timer = FALSE,
                                                    !.connectionFinished = TRUE,
                                                    !.ends = @ + 1],
                               NullObj, "exec")
                  ELSE [finger.quick EXCEPT !.wait = "stream"])
  /\ UNCHANGED notFingerVars

\* the stream of the quick check closes: a device when the output names
\* OpenWrt, else null
QuickClose(isOpenWrt) ==
  /\ finger.quick.wait = "stream"
  /\ finger' =
       SetQuick(finger,
                IF finger.quick.connectionFinished
                  THEN [finger.quick EXCEPT !.wait = "none"]
                  ELSE Resolve([finger.quick EXCEPT !.wait = "none", !.timer = FALSE,
                                                    !.connectionFinished = TRUE,
                                                    !.ends = @ + 1,
                                                    !.isOpenWrt = isOpenWrt],
                               IF isOpenWrt THEN Detected(finger.quick.ip) ELSE NullObj,
                               "finish"))
  /\ UNCHANGED notFingerVars

\* the timer of 3.5 s of the quick check fires, after the timer of 3 s of
\* its race
QuickTimer ==
  /\ finger.quick.timer
  /\ ~finger.scan.outer3
  /\ finger' = SetQuick(finger, OnFailure(finger.quick, NullObj, "timer"))
  /\ UNCHANGED notFingerVars

\* conn.on('error') of the quick check
QuickError ==
  /\ finger.quick.pc \in {"connecting", "ready"}
  /\ finger' =
       SetQuick(finger,
                [OnFailure(finger.quick, NullObj, "error") EXCEPT !.pc = "failed"])
  /\ UNCHANGED notFingerVars

\* the timer of 3 s of the race of the quick check fires
OuterDeadline3 ==
  /\ finger.scan.outer3
  /\ finger' =
       LET f == [finger EXCEPT !.scan.outer3 = FALSE]
       IN IF finger.scan.pc = "quick"
            THEN AfterQuick([f EXCEPT !.scan.late = @ \cup {finger.quick.ip}], NullObj)
            ELSE f
  /\ UNCHANGED notFingerVars

FingerNext ==
  \/ \E activeIPs \in Candidates, raises \in BOOLEAN : ScanCall(activeIPs, raises)
  \/ ExtReady
  \/ \E err \in BOOLEAN : ExtExec(err)
  \/ \E good \in BOOLEAN : ExtClose(good)
  \/ ExtTimer
  \/ ExtError
  \/ OuterDeadline5
  \/ QuickReady
  \/ \E err \in BOOLEAN : QuickExec(err)
  \/ \E isOpenWrt \in BOOLEAN : QuickClose(isOpenWrt)
  \/ QuickTimer
  \/ QuickError
  \/ OuterDeadline3

FingerSpec == Init /\ [][FingerNext]_vars

\* ------------------------------------------------------- the TCP probes

\* the probes: checkPortOpen and checkPortOpenQuick of the scanner,
\* checkPortOpen of the shell client
Probes == {"checkPortOpen", "checkPortOpenQuick", "sshClient.checkPortOpen"}

\* the ports the probes are called with
ProbedPorts == {22, 23, 80, 443, 8080, 8081}

\* the events of the socket, and the timer only checkPortOpenQuick sets
SocketEvents == {"connect", "timeout", "error"}

\* variant: a safety timer that resolves and leaves the socket as it is
OnEventLeavingSocket(k, path) ==
  IF k.hasResolved THEN k
  ELSE [k EXCEPT !.hasResolved = TRUE,
                 !.state = IF path = "deadline" THEN k.state ELSE "destroyed",
                 !.answer = IF path = "connect" THEN "true" ELSE "false",
                 !.path = path, !.pc = "returned"]

\* a handler of the probe, the one of the safety timer included: if the
\* probe has not resolved, socket.destroy() and resolve(path = connect)
OnEvent(k, path) ==
  IF k.hasResolved THEN k
  ELSE [k EXCEPT !.hasResolved = TRUE, !.state = "destroyed",
                 !.answer = IF path = "connect" THEN "true" ELSE "false",
                 !.path = path, !.pc = "returned"]

\* a probe is called: new net.Socket(), setTimeout, the handlers, and
\* socket.connect(port, ip), which begins to connect or raises at once.
\* checkPortOpenQuick catches that and resolves false, then sets its safety
\* timer; in the other two the promise is rejected.
ProbeCall(fn, port, raises) ==
  /\ socket.pc = "idle"
  /\ socket' =
       IF ~raises
         THEN [NoProbe EXCEPT !.fn = fn, !.port = port, !.pc = "connecting",
                              !.state = "connecting",
                              !.timer = (fn = "checkPortOpenQuick")]
       ELSE IF fn = "checkPortOpenQuick"
         THEN [NoProbe EXCEPT !.fn = fn, !.port = port, !.pc = "returned",
                              !.state = "unconnected", !.hasResolved = TRUE,
                              !.answer = "false", !.path = "catch", !.timer = TRUE]
       ELSE [NoProbe EXCEPT !.fn = fn, !.port = port, !.pc = "rejected",
                            !.state = "unconnected", !.path = "throw"]
  /\ UNCHANGED notProbeVars

\* the socket emits connect, timeout or error while it is connecting
SocketEvent(event) ==
  /\ socket.state = "connecting"
  /\ socket' = OnEvent(socket, event)
  /\ UNCHANGED notProbeVars

\* the safety timer of checkPortOpenQuick fires, timeout + 10 ms after the
\* call; it is not cleared when the probe has resolved
SafetyTimer ==
  /\ socket.timer
  /\ socket' = [OnEvent(socket, "deadline") EXCEPT !.timer = FALSE]
  /\ UNCHANGED notProbeVars

ProbeNext ==
  \/ \E fn \in Probes, port \in ProbedPorts, raises \in BOOLEAN : ProbeCall(fn, port, raises)
  \/ \E event \in SocketEvents : SocketEvent(event)
  \/ SafetyTimer

ProbeSpec == Init /\ [][ProbeNext]_vars

\* every step that can be taken is taken in the end
ShellSpec == Init /\ [][ShellNext]_vars /\ WF_vars(ShellNext)

\* ------------------------------------------------- properties of the registry

Terminal == {"completed", "error"}

\* the status changes a job may take in one step
StatusSteps ==
  {<<"pending", "running">>, <<"running", "completed">>, <<"running", "error">>}

\* the jobs that are in the registry before and after a step
Kept == DOMAIN scanJobs \cap DOMAIN scanJobs'

\* C1: a job enters the registry with status pending; from then on its status
\* changes only pending -> running, running -> completed and running ->
\* error, so completed and error are never left, whatever the interleaving
\* of create, start, the updates of the scan body and the sweep
C1_StatusMachine ==
  [][ /\ \A j \in DOMAIN scanJobs' \ DOMAIN scanJobs : scanJobs'[j].status = "pending"
      /\ \A j \in Kept :
           \/ scanJobs'[j].status = scanJobs[j].status
           \/ <<scanJobs[j].status, scanJobs'[j].status>> \in StatusSteps ]_vars

\* C1 witness: startScanJob was called on a job whose scan had completed
C1_Witness ==
  \E j \in DOMAIN scanJobs : scanJobs[j].status = "completed" /\ lastStart = j

\* C2: the progress of a job lies in 0..100, is 100 whenever the status is
\* completed or error, and never decreases from one step to the next
C2_Progress ==
  /\ [](\A j \in DOMAIN scanJobs :
          /\ scanJobs[j].progress \in 0..100
          /\ scanJobs[j].status \in Terminal => scanJobs[j].progress = 100)
  /\ [][\A j \in Kept : scanJobs'[j].progress >= scanJobs[j].progress]_vars

\* C2 witness: a scan that failed at its first stage stands at progress 100
C2_Witness ==
  \E j \in DOMAIN scanJobs :
    /\ scanJobs[j].status = "error"
    /\ scanJobs[j].progress = 100
    /\ scanLocals[j].ips = {}

\* C3: startScanJob on a job that is missing or not pending changes neither
\* the registry nor any running scan body, and the body of a job is entered
\* at most once
C3_StartOnce ==
  /\ [](\A j \in JobIds : bodyRuns[j] <= 1)
  /\ [][\A j \in JobIds :
          ( /\ lastStart' = j
            /\ (j \notin DOMAIN scanJobs \/ scanJobs[j].status # "pending") )
          => UNCHANGED <<scanJobs, scanPc, scanLocals, bodyRuns, created, now>>]_vars

\* C3 witness: startScanJob was called again on a job whose body had already
\* passed its first stage
C3_Witness ==
  \E j \in DOMAIN scanJobs :
    /\ lastStart = j
    /\ bodyRuns[j] = 1
    /\ scanJobs[j].status = "running"
    /\ scanJobs[j].progress >= 20

C5_Eviction ==
  /\ [][\A j \in DOMAIN scanJobs :
          j \notin DOMAIN scanJobs'
          <=> (now' = now + SweepEvery /\ now' - scanJobs[j].updatedAt > EvictAfter)]_vars
  /\ [](\A j \in DOMAIN scanJobs : now - scanJobs[j].updatedAt <= EvictAfter)

\* C5 witness: a job whose body was entered has been removed by the sweep
C5_Witness ==
  \E j \in JobIds : j <= created /\ bodyRuns[j] = 1 /\ j \notin DOMAIN scanJobs

\* ------------------------------------ properties of collection and deletion

\* C6: the query of a tick finds no router whose monitoringEnabled is false
\* when the query runs, and a tick starts a Collector call only for a router
\* its query found
C6_MonitoredOnly ==
  [][ /\ (tick.pc = "idle" /\ tick'.pc = "queried")
         => \A r \in DOMAIN tick'.found :
              r \in DOMAIN routers /\ routers[r].monitoringEnabled
      /\ \A r \in RouterIds :
           (tickCall[r].pc # "collect" /\ tickCall'[r].pc = "collect")
           => /\ tick.pc = "queried"
              /\ r \in DOMAIN tick.found
              /\ tick.found[r].monitoringEnabled ]_vars

\* C6 witness: a tick has dispatched a Collector call for one router and
\* none for a router whose monitoring is off
C6_Witness ==
  \E r, q \in DOMAIN routers :
    /\ tickCall[r].pc = "collect"
    /\ ~routers[q].monitoringEnabled
    /\ tickCall[q] = NoCall
    /\ manCall[q] = NoCall

\* a finished attempt during which a TCP probe found the port closed
ProbeClosed(c) == c.pc = "done" /\ c.probed /\ ~c.portOpen

\* C7 as the spec states it: a collection attempt, of a tick or of a
\* collect-metrics request, during which the TCP probe is not open writes
\* status offline and stores no Metric row
C7_AsStated ==
  \A r \in RouterIds :
    /\ ProbeClosed(tickCall[r])
         => tickCall[r].saved = "offline" /\ ~tickCall[r].inserted
    /\ ProbeClosed(manCall[r])
         => manCall[r].saved = "offline" /\ ~manCall[r].inserted

\* an attempt whose probes were open and whose shell did not open, at or
\* after the return of the Collector
ShellFailed(c) == c.probed /\ c.portOpen /\ c.shell = "failed"

\* the record of C8: the error, and every numeric field zero
IsShellSentinel(m) ==
  /\ "error" \in DOMAIN m
  /\ m.error = "SSH connection failed"
  /\ m.uptime = Null
  /\ m.memoryUsage = [total |-> 0, free |-> 0, used |-> 0, percentage |-> 0]
  /\ m.cpuLoad = 0
  /\ m.diskUsage = [total |-> 0, free |-> 0, used |-> 0, percentage |-> 0]
  /\ m.networkInterfaces = <<>>
  /\ m.wirelessClients = 0

\* C8: when the probe is open and the shell does not open, the Collector
\* returns the record with error "SSH connection failed" and zero in every
\* numeric field, and the attempt writes status online, never offline
C8_ShellFailure ==
  \A r \in RouterIds :
    /\ ShellFailed(tickCall[r])
         => /\ IsShellSentinel(tickCall[r].metrics)
            /\ tickCall[r].pc \in {"saveOnline", "insert", "done"}
            /\ tickCall[r].pc \in {"insert", "done"} => tickCall[r].saved = "online"
    /\ ShellFailed(manCall[r])
         => /\ IsShellSentinel(manCall[r].metrics)
            /\ manCall[r].pc \in {"insert", "done"}
            /\ manCall[r].saved = "online"

\* C8 witness: an attempt of a tick and an attempt of a request have both
\* ended after a shell that did not open
C8_Witness ==
  \E r, q \in RouterIds :
    /\ ShellFailed(tickCall[r]) /\ tickCall[r].pc = "done"
    /\ ShellFailed(manCall[q]) /\ manCall[q].pc = "done"

\* per command: the field of record m holds the reading of a live device
FieldRead(m) ==
  [ uptime   |-> m.uptime = SampleUptime,
    memory   |-> m.memoryUsage = SampleMemory,
    cpu      |-> m.cpuLoad = SampleCpu,
    disk     |-> m.diskUsage = SampleDisk,
    network  |-> m.networkInterfaces = SampleNetwork,
    wireless |-> m.wirelessClients = SampleWireless ]

\* per command: the field of record m holds its zero value
FieldZero(m) ==
  [ uptime   |-> m.uptime \in {"", Null},
    memory   |-> m.memoryUsage = [total |-> 0, free |-> 0, used |-> 0, percentage |-> 0],
    cpu      |-> m.cpuLoad = 0,
    disk     |-> m.diskUsage = [total |-> 0, free |-> 0, used |-> 0, percentage |-> 0],
    network  |-> m.networkInterfaces = <<>>,
    wireless |-> m.wirelessClients = 0 ]

\* record m has zero in the field of command c and a reading in the others
OnlyZero(m, c) ==
  FieldZero(m)[c] /\ \A d \in Commands \ {c} : FieldRead(m)[d]

\* the commands that did not succeed in the call
Failed == {c \in Commands : battery.out[c] # "ok"}

OthersRows(ms, r) == {m \in ms : m.routerId # r}

\* C10: a finished deletion of router r leaves no row of r in Routers and no
\* Metric row with routerId r, and no step of the deletion changes a row of
\* another router or a Metric row of another router
C10_Delete ==
  /\ [](\A r \in RouterIds :
          delCall[r] = "done"
          => r \notin DOMAIN routers /\ \A m \in metrics : m.routerId # r)
  /\ [][\A r \in RouterIds :
          delCall'[r] # delCall[r]
          => /\ OthersRows(metrics', r) = OthersRows(metrics, r)
             /\ \A q \in DOMAIN routers \ {r} :
                  q \in DOMAIN routers' /\ routers'[q] = routers[q]
             /\ DOMAIN routers' \subseteq DOMAIN routers]_vars

\* C10 witness: router r is deleted after a collection stored a row for it,
\* and a row of another router is still there
C10_Witness ==
  \E r \in RouterIds :
    /\ delCall[r] = "done"
    /\ tickCall[r].inserted
    /\ \E m \in metrics : m.routerId # r

\* ---------------------------------------- properties of the retention sweep

\* the router whose Metric.deleteMany runs in this step, if any
SweptNow ==
  IF cleanup.pc # "deleting" THEN {}
  ELSE DOMAIN cleanup.cutoff \
         (IF cleanup'.pc = "deleting" THEN DOMAIN cleanup'.cutoff ELSE {})

\* the retention of router r in days (30 when the router has none)
OwnDays(r) == IF keepDays[r] = 0 THEN 30 ELSE keepDays[r]

\* the rows of router r older than its retention
Expired(r) ==
  {m \in samples : m.routerId = r /\ today - m.timestamp > OwnDays(r)}

\* C11: the delete of the sweep for router R removes exactly the Metric rows
\* of R whose age exceeds R's own metricsRetentionDays, and leaves every
\* younger row and every row of another router; no other step removes a row
C11_Retention ==
  [][ /\ \A r \in SweptNow : samples' = samples \ Expired(r)
      /\ SweptNow = {} => samples \subseteq samples' ]_vars

\* C11 witness: a router with retention 7 had rows at now, now - 6 and
\* now - 8; the sweep has ended and the first two remain
C11_Witness ==
  \E r \in DOMAIN keepDays :
    /\ keepDays[r] = 7
    /\ cleanup.pc = "idle"
    /\ sampleSeq = 3
    /\ Cardinality(samples) = 2
    /\ {m.timestamp : m \in samples} = {today, today - 6}
    /\ \A m \in samples : m.routerId = r /\ m.id > 1

\* ------------------------------------------------------ enrolment claims

\* C12: once the status of a Router is online or offline, no step (test of
\* the connection, collection, router update, scanner add) sets it back to
\* unknown
C12_AsStated ==
  [][ \A r \in DOMAIN fleet :
        fleet[r].status # "unknown" => fleet'[r].status # "unknown" ]_vars

LowerCase(mac) == IF mac = MacUpper THEN MacLower ELSE mac

\* C14: no two rows of Routers hold MAC addresses that are equal when the
\* case of the letters is ignored
C14_AsStated ==
  \A p, q \in DOMAIN fleet :
    (p # q /\ fleet[p].macAddress # Null /\ fleet[q].macAddress # Null)
      => LowerCase(fleet[p].macAddress) # LowerCase(fleet[q].macAddress)

\* the resubmitted add-multiple has been answered
SecondAnswered == batch.round = 2 /\ batch.next > Len(batch.devices)

\* every device of the payload has an IP address
AllAddressed ==
  \A i \in DOMAIN batch.devices : batch.devices[i].ipAddress # Null

\* C15: when the same payload of devices is submitted to add-multiple a
\* second time, the Routers are the same as after the first submission and
\* the second answer lists every device as updated and none as added
C15_AsStated ==
  (SecondAnswered /\ AllAddressed)
    => /\ fleet = batch.after
       /\ batch.added = {}
       /\ batch.updated = DOMAIN batch.devices

\* --------------------------------------------------------- survey claims

\* the last octet the scan treats as the hinted host
Hinted == {36}

\* C16: every IP among the candidates the scan hands to the device checks
\* is the hinted host or a host that answers a TCP probe; no other IP is in
\* the list
C16_Candidates ==
  \A o \in survey.allActiveIPs :
    o \in Hinted \/ (o \in DOMAIN lan /\ lan[o].ports # {})

\* C16 witness: the candidates were handed over; among them are the hinted
\* host, which answers no port, and a host that answers, and a host of the
\* subnet that answers no port is not among them
C16_Witness ==
  /\ survey.pc = "done"
  /\ 36 \in survey.allActiveIPs
  /\ lan[36].ports = {}
  /\ \E o \in survey.allActiveIPs \ {36} : lan[o].ports # {}
  /\ \E o \in DOMAIN lan \ survey.allActiveIPs : lan[o].ports = {}

\* the candidates whose shell did not open, or not before the deadline
NotFingerprinted ==
  {o \in survey.allActiveIPs : o \in DOMAIN lan /\ lan[o].ssh # "openwrt"}

\* C17: every candidate that could not be fingerprinted is among the devices
\* of the finished scan, with sshSuccess false and a note
C17_AsStated ==
  survey.pc = "done"
    => \A o \in NotFingerprinted :
         \E d \in survey.results.devices :
           d.ipAddress = o /\ d.sshSuccess = "false" /\ d.note

\* no host of the subnet answers SSH
NoSSHResponder == lan # <<>> /\ \A o \in DOMAIN lan : lan[o].ssh # "openwrt"

\* C18: the scan of a subnet where no host answers SSH ends completed with
\* an empty list of devices
C18_AsStated ==
  (survey.pc = "done" /\ NoSSHResponder) => survey.results.devices = {}

\* every last octet of the subnet
FullRange == 1..254

\* C19: partialScan of a scan result is true exactly when the scan ended
\* before every last octet of 1..254 was probed, for the result of a scan
\* job and for the result of scanSubnet
C19_AsStated ==
  /\ survey.pc = "done"
       => (survey.results.partialScan <=> survey.probed # FullRange)
  /\ "probed" \in DOMAIN sweep
       => (sweep.partialScan <=> sweep.probed # FullRange)

\* ----------------------------------------------------------- wheel claims

\* the collection jobs that are started
RunningJobs(jobs) == {id \in DOMAIN jobs : jobs[id].running}

\* C20: a call of updateCollectionInterval that installs a job leaves exactly
\* one started collection job, the one installed, on the schedule asked
\* for; a replaced job is never started again and no step dispatches a tick
\* of a job other than the installed one
C20_Reconfigure ==
  [][ /\ metricsCollectionJob' # metricsCollectionJob
           => /\ RunningJobs(cronJobs') = {metricsCollectionJob'}
              /\ reconf'.returned
              /\ cronJobs'[metricsCollectionJob'].cronTime = CronTimeOf(reconf'.interval)
      /\ RunningJobs(cronJobs') \subseteq {metricsCollectionJob'}
      /\ lastTick' # 0 => lastTick' = metricsCollectionJob' ]_vars

\* C20 witness: the interval was reconfigured twice, last to HOURLY, and the
\* third job, the only one started, has dispatched a tick
C20_Witness ==
  /\ metricsCollectionJob = 3
  /\ reconf = [interval |-> "HOURLY", returned |-> TRUE]
  /\ cronJobs[3] = [cronTime |-> "0 * * * *", running |-> TRUE]
  /\ cronJobs[1].cronTime # cronJobs[2].cronTime
  /\ lastTick = 3

\* the six names of intervals and their cron expressions
IntervalNames == DOMAIN CollectionIntervals
IntervalCrons == {CollectionIntervals[k] : k \in IntervalNames}

\* the list of jobs after the current one was replaced by a started job on
\* the schedule `cronTime'
Replaced(jobs, cronTime) ==
  Append([i \in DOMAIN jobs |-> [jobs[i] EXCEPT !.running = FALSE]],
         [cronTime |-> cronTime, running |-> TRUE])

\* C21: a reconfiguration asked for by the name of an interval and one asked
\* for by the cron expression of that name both succeed, and from the same
\* state both lead to the same state of the scheduler: the current interval
\* is the cron expression, the collection job is a new started job on that
\* schedule, the replaced jobs are stopped, the cleanup job is as before
C21_NameOrCron ==
  [][ \A k \in IntervalNames :
        (wheelOp'.op = "update" /\ wheelOp'.arg \in {k, CollectionIntervals[k]})
          => /\ configStatus' = 200
             /\ reconf' = [interval |-> wheelOp'.arg, returned |-> TRUE]
             /\ currentInterval' = CollectionIntervals[k]
             /\ cronJobs' = Replaced(cronJobs, CollectionIntervals[k])
             /\ metricsCollectionJob' = Len(cronJobs) + 1
             /\ cleanupRunning' = cleanupRunning ]_vars

\* C21 witness: the interval was set by the cron expression of DAILY and then
\* by the name DAILY: the second and the third job are on the same schedule
C21_Witness ==
  /\ wheelOp = [op |-> "update", arg |-> "DAILY"]
  /\ configStatus = 200
  /\ metricsCollectionJob = 3
  /\ currentInterval = "0 0 * * *"
  /\ cronJobs[2] = [cronTime |-> "0 0 * * *", running |-> FALSE]
  /\ cronJobs[3] = [cronTime |-> "0 0 * * *", running |-> TRUE]

\* C22 as stated: a request whose interval is neither a name of the table nor
\* one of its cron expressions is answered with 400 and leaves the current
\* interval, the collection job and what is running as they were
C22_AsStated ==
  [][ (wheelOp'.op = "update" /\ wheelOp'.arg \notin IntervalNames \cup IntervalCrons)
        => /\ configStatus' = 400
           /\ UNCHANGED << currentInterval, metricsCollectionJob, cronJobs,
                           cleanupRunning >> ]_vars

MemoryFields == {"total", "free", "used", "percentage"}
DiskFields == MemoryFields \cup {"totalRaw", "freeRaw", "usedRaw"}

\* C24 as stated: every record the Collector returns has all fields and
\* sub-fields, diskUsage with its three raw texts included, and none of them
\* is null
C24_AsStated ==
  battery.pc # "idle"
    => /\ battery.result.uptime # Null
       /\ DOMAIN battery.result.memoryUsage = MemoryFields
       /\ DOMAIN battery.result.diskUsage = DiskFields

\* a number from 0 to 100
IsPercentage(x) == x.kind = "finite" /\ 0 <= x.num /\ x.num <= 100 * x.den

\* C25 as stated: whatever the commands print, the percentages of memory and
\* disk are numbers from 0 to 100 and the CPU load is a number not below 0
C25_AsStated ==
  /\ gauge.helper \in {"memory", "disk"} => IsPercentage(gauge.output.percentage)
  /\ gauge.helper = "cpu" => gauge.output.kind = "finite" /\ gauge.output.num >= 0

\* C26 as stated: from the values read from /proc/meminfo, the free memory
\* is MemAvailable when that is above 0 and MemFree + Buffers + Cached
\* otherwise, used is the total less the free memory, and the percentage is
\* used / total * 100 rounded when the total is above 0 and 0 when it is 0
C26_AsStated ==
  (gauge.helper = "memory" /\ gauge.res.stdout /\ ~gauge.res.stderr /\ ~gauge.res.rejects)
    => LET effectiveFree ==
             IF gauge.res.memAvailable > 0 THEN gauge.res.memAvailable
             ELSE gauge.res.memFree + gauge.res.buffers + gauge.res.cached
           used == gauge.res.memTotal - effectiveFree
       IN /\ gauge.output.total = Finite(gauge.res.memTotal, 1)
          /\ gauge.output.free = Finite(effectiveFree, 1)
          /\ gauge.output.used = Finite(used, 1)
          /\ gauge.output.percentage =
               IF gauge.res.memTotal > 0
                 THEN Finite(MathRound(used * 100, gauge.res.memTotal), 1)
                 ELSE Finite(0, 1)

\* ------------------------------------------------- more registry claims

\* C27: a status request for an id that is not in the registry, never
\* created or evicted, is answered with 404 and no job; an answer of 200
\* carries the status, progress and results the registry holds for that id
C27_NotFound ==
  poll.code # 0
    => /\ poll.jobId \notin DOMAIN scanJobs => poll.code = 404 /\ poll.body = NullObj
       /\ poll.jobId \in DOMAIN scanJobs
            => /\ poll.code = 200
               /\ poll.body.status = scanJobs[poll.jobId].status
               /\ poll.body.progress = scanJobs[poll.jobId].progress
               /\ poll.body.devices = scanJobs[poll.jobId].results.devices

\* C27 witness: the job that was created has been evicted after its scan
\* ended, and a request for its id was answered with 404
C27_Witness ==
  /\ created = 1
  /\ scanPc[1] = "done"
  /\ poll = [jobId |-> 1, code |-> 404, body |-> NullObj]

\* the jobs that have ended
Ended ==
  {j \in DOMAIN scanJobs : scanJobs[j].status \in {"completed", "error"}}

\* C28: a job whose scan was started is completed or in error at some later
\* time, whatever the scans return
C28_Terminates ==
  \A j \in JobIds : (scanPc[j] = "comprehensive") ~> (j \in Ended)

\* C28 witness: a started job went through its three scans and is completed
\* with the placeholder of the target as its only device
C28_Witness ==
  /\ 1 \in Ended
  /\ scanPc[1] = "done"
  /\ bodyRuns[1] = 1
  /\ scanJobs[1].status = "completed"
  /\ scanJobs[1].results.devices = {TargetOctet}

\* C30: an update for an id that is not in the registry changes nothing, and
\* an id enters the registry only when createScanJob mints it: a job that
\* was evicted is never stored again
C30_NoReinsert ==
  [][ /\ dropped' # 0 => scanJobs' = scanJobs
      /\ \A j \in JobIds :
           (j \notin DOMAIN scanJobs /\ j \in DOMAIN scanJobs')
             => created = j - 1 /\ created' = j ]_vars

\* C30 witness: the job was evicted while its scan was running, and the
\* update with the results of the scan found no job
C30_Witness ==
  /\ dropped = 1
  /\ created = 1
  /\ scanPc[1] = "done"
  /\ 1 \notin DOMAIN scanJobs

\* ------------------------------------------------- more collection claims

\* C29 as stated: no router has two Collector calls in flight, the one of a
\* Scheduler tick and the one of a collect-metrics request
C29_AsStated ==
  \A r \in RouterIds : ~(tickCall[r].pc = "collect" /\ manCall[r].pc = "collect")

\* the calls of a tick that are under way
Underway(c) == c.pc \in {"collect", "saveOffline", "saveOnline", "insert"}

\* C31: a tick starts one Collector call for each router its query found and
\* for no other; a step of the call of one router, a rejected save of its
\* metric included, leaves the calls of the other routers where they are, so
\* each goes on to store its status and its metric
C31_PerRouter ==
  [][ /\ (tick.pc = "queried" /\ tick'.pc = "idle")
         => \A r \in RouterIds :
              IF r \in DOMAIN tick.found
                THEN ~Underway(tickCall[r]) /\ tickCall'[r].pc = "collect"
                ELSE tickCall'[r] = tickCall[r]
      /\ \A r \in RouterIds :
           (Underway(tickCall[r]) /\ tickCall'[r] # tickCall[r])
             => \A q \in RouterIds \ {r} : tickCall'[q] = tickCall[q]
      /\ \A r \in RouterIds :
           (tickCall[r].pc = "insert" /\ tickCall'[r].pc = "done" /\ r \in DOMAIN routers)
             => tickCall'[r].inserted /\ metricSeq' = metricSeq + 1 ]_vars

\* C31 witness: in one tick the insert for one router was rejected (the
\* router was deleted meanwhile) and the status and the metric of the other
\* router were stored
C31_Witness ==
  \E r, q \in RouterIds :
    /\ r # q
    /\ tickCall[r].pc = "done" /\ tickCall[r].shell = "open" /\ ~tickCall[r].inserted
    /\ r \notin DOMAIN routers
    /\ tickCall[q].pc = "done" /\ tickCall[q].inserted
    /\ q \in DOMAIN routers /\ routers[q].status = "online"
    /\ \E m \in metrics : m.routerId = q

\* C32 as stated: the Collector calls ssh.connect only when the port the
\* router is configured with answered the probe, and when that port does not
\* answer it opens no shell and returns the record "Device not reachable"
C32_AsStated ==
  battery.pc # "idle"
    => /\ battery.shellPort # 0 => battery.shellPort \in battery.listening
       /\ SshPortOf(battery.port) \notin battery.listening
            => /\ battery.shellPort = 0
               /\ battery.result.error = "Device not reachable"

\* ------------------------------------------------- claims about the sessions

\* C33 as stated: when a function that opened a shell session returns, by
\* any of its paths, the session has been closed
C33_AsStated == session.pc = "returned" => ~session.open

\* C34 as stated: a call of the Collector returns, whatever the device does
\* with the commands
C34_AsStated ==
  (session.fn = "collectMetrics" /\ session.pc = "connect") ~> (session.pc = "returned")

\* ------------------------------------------------- more scheduler claims

\* a collection job, the current one or one it replaced, is running
CollectionRunning == \E id \in DOMAIN cronJobs : cronJobs[id].running

\* C37 as stated: the step after stopAll is not a collection tick, and a
\* reconfiguration that follows stopAll leaves no collection job running
C37_AsStated ==
  [][ wheelOp.op = "stopAll"
        => /\ wheelOp'.op # "tick"
           /\ wheelOp'.op = "update" => ~CollectionRunning' ]_vars

\* ------------------------------------------------- more claims about the scan

\* the batches of the remaining range a call of scanSubnet has probed
BatchesProcessed == Cardinality({k \in 1..BatchCount : BatchOf(k) \subseteq sweep.probed})

\* C38 as stated: scanSubnet returns partial exactly when the first list
\* yielded two addresses or more, or five or more were found in all, or at
\* least one was found and eight batches or more of the remaining range have
\* been probed
C38_AsStated ==
  "probed" \in DOMAIN sweep
    => ( sweep.partialScan
           <=> \/ Cardinality(Active(lan, HighPriorityIPs, BatchPorts)) >= 2
               \/ Cardinality(sweep.activeIPs) >= 5
               \/ (sweep.activeIPs # {} /\ BatchesProcessed >= 8) )

\* C39: the array of devices a completed scan stores has no two devices
\* with one address, whichever lists the address was in; its elements are
\* the devices of the result
C39_OnePerAddress ==
  survey.pc = "done"
    => /\ \A i, j \in DOMAIN survey.deviceList :
            survey.deviceList[i].ipAddress = survey.deviceList[j].ipAddress => i = j
       /\ Elements(survey.deviceList) = survey.results.devices

\* C39 witness: the target and a neighbour of it were found by the targeted
\* scan and by the scan of the common addresses, and each is in the array of
\* a completed scan once
C39_Witness ==
  /\ survey.pc = "done"
  /\ {TargetOctet, 35} \subseteq Elements(ComprehensiveList(lan)) \cap Elements(QuickList(lan))
  /\ {d.ipAddress : d \in Elements(survey.deviceList)} = {TargetOctet, 35}
  /\ Len(survey.deviceList) = 2

\* ------------------------------------------------- claims about the probes

\* C40: when a probe has returned by its connect, timeout or error handler
\* or by its safety timer, its socket is destroyed; a returned probe never
\* has a socket that is connecting or connected
C40_SocketReleased ==
  socket.pc = "returned"
    => /\ socket.state \notin {"connecting", "open"}
       /\ socket.path \in SocketEvents \cup {"deadline"} => socket.state = "destroyed"

\* C40 witness: checkPortOpenQuick returned closed by its safety timer, no
\* event of the socket having come first, and the socket is destroyed
C40_Witness ==
  /\ socket.fn = "checkPortOpenQuick"
  /\ socket.pc = "returned"
  /\ socket.path = "deadline"
  /\ socket.answer = "false"
  /\ socket.state = "destroyed"

\* ------------------------------------------- claims about the fingerprinters

\* the commands of chain n in a log, the length of the chain, and whether
\* the chain has succeeded
CommandsOf(log, n) == SelectSeq(log, LAMBDA x : x.chain = n)
ChainLength(n) ==
  CASE n = 1 -> HostnameCommands [] n = 2 -> OpenWrtCommands [] n = 3 -> MacCommands
Succeeded(c, n) ==
  CASE n = 1 -> c.hostnameFound [] n = 2 -> c.isOpenWrt [] n = 3 -> c.macAddress

\* the commands of the extended check were issued chain after chain, each
\* chain from its first command on in list order
InListOrder(log) ==
  /\ log # <<>> => log[1] = [chain |-> 1, index |-> 1]
  /\ \A i \in 1..(Len(log) - 1) :
       \/ log[i + 1] = [chain |-> log[i].chain, index |-> log[i].index + 1]
       \/ log[i + 1] = [chain |-> log[i].chain + 1, index |-> 1]
  /\ \A i \in DOMAIN log : log[i].chain \in 1..3 /\ log[i].index <= ChainLength(log[i].chain)

\* the promise of the extended check was settled by one of `handlers', and by
\* finishCheck only when each chain had succeeded or was exhausted
DeliveredBy(handlers) ==
  finger.ext.value # Pending
    => /\ finger.ext.by \in handlers
       /\ finger.ext.by = "finish"
            => \A n \in 1..3 :
                 \/ Succeeded(finger.ext, n)
                 \/ Len(CommandsOf(finger.ext.log, n)) = ChainLength(n)

\* a step issues no command of a chain that has succeeded, and leaves the
\* value of a settled promise as it is
NoCommandAfterSuccess ==
  /\ \A n \in 1..3 :
       Succeeded(finger'.ext, n)
         => CommandsOf(finger'.ext.log, n) = CommandsOf(finger.ext.log, n)
  /\ finger.ext.value # Pending => finger'.ext.value = finger.ext.value

\* C36 as stated: the chains run in order and in list order, none goes on
\* after a success, and the result is delivered once, by finishCheck after
\* the three chains or by the timer of 8 s
C36_AsStated ==
  /\ [](InListOrder(finger.ext.log) /\ DeliveredBy({"finish", "timer"}))
  /\ [][NoCommandAfterSuccess]_vars

\* C36: the chains run in order and in list order, none goes on after a
\* success, and the result is delivered once: by finishCheck after the three
\* chains, by the timer of 8 s, or as the degraded record when the connection
\* fails (the error event, or a connect that raises)
C36_ChainsInOrder ==
  /\ [](InListOrder(finger.ext.log) /\ DeliveredBy({"finish", "timer", "error", "catch"}))
  /\ [][NoCommandAfterSuccess]_vars

\* C36 witness: the second hostname command succeeded, the four router-class
\* commands failed, the first MAC command succeeded, and finishCheck
\* delivered the result
C36_Witness ==
  /\ finger.ext.by = "finish"
  /\ finger.ext.value = [Detected(TargetOctet) EXCEPT !.isOpenWrt = FALSE]
  /\ finger.ext.hostnameFound /\ ~finger.ext.isOpenWrt /\ finger.ext.macAddress
  /\ Len(CommandsOf(finger.ext.log, 1)) = 2
  /\ Len(CommandsOf(finger.ext.log, 2)) = 4
  /\ Len(CommandsOf(finger.ext.log, 3)) = 1
  /\ finger.ext.resolves = 1

\* the checks a scan has begun for address ip
ChecksOf(ip) ==
  {i \in DOMAIN finger.scan.checked : finger.scan.checked[i].ip = ip}

\* the devices of the scan with address ip
DevicesOf(ip) ==
  SelectSeq(finger.scan.devices, LAMBDA device : device.ipAddress = ip)

\* C35: a scan that has returned began one check for each address it was
\* given, the extended one (raced against the timer of 5 s) for the target
\* and the quick one (raced against the timer of 3 s) for another address;
\* for an address whose timer settled the race the array of devices holds
\* the placeholder of the target and nothing else, and what a check resolves
\* with after the scan has returned changes nothing in the array
C35_OncePerCandidate ==
  /\ [](finger.scan.pc = "done"
          => \A ip \in Elements(finger.scan.activeIPs) :
               /\ Cardinality(ChecksOf(ip)) = 1
               /\ \A i \in ChecksOf(ip) :
                    finger.scan.checked[i].mode
                      = IF ip = TargetOctet THEN "extended" ELSE "quick")
  /\ [](\A ip \in finger.scan.late :
          DevicesOf(ip) = IF ip = TargetOctet THEN <<Placeholder(ip)>> ELSE <<>>)
  /\ [][finger.scan.pc = "done" => finger'.scan.devices = finger.scan.devices]_vars

\* C35 witness: the scan of the target and one other address returned with
\* the placeholder alone, both timers having settled their races; after that
\* both checks resolved with a device
C35_Witness ==
  /\ finger.scan.pc = "done"
  /\ finger.scan.activeIPs = <<TargetOctet, 35>>
  /\ finger.scan.late = {TargetOctet, 35}
  /\ finger.ext.by = "finish" /\ finger.ext.value.ipAddress = TargetOctet
  /\ finger.quick.value = Detected(35)
  /\ finger.scan.devices = <<Placeholder(TargetOctet)>>

====
